---- MODULE Spec2Model ----
(***************************************************************************)
(* MitoNet canonical store and incremental ingestion                       *)
(* (src/mitonet/database.py, src/mitonet/ingestion.py).                    *)
(*                                                                         *)
(* The store is the five tables of MitoNetDatabase.  Every table has an    *)
(* autoincrement integer primary key and no operation deletes a row, so a  *)
(* table is a sequence and a row's id is its index.  A nullable value is   *)
(* None (<<>>) or Some(v) (<<v>>).  Confidences and scores are STRING's    *)
(* integer thousandths (combined_score); nTPM values are tenths.           *)
(*                                                                         *)
(* Every method opens its own session and closes it before returning, so   *)
(* the objects it returns are detached: a later assignment to one of them  *)
(* changes that object only, and reaches the store only through a session  *)
(* the object was merged into (add_protein_alias merges, the ingest_*      *)
(* loops do not).                                                          *)
(***************************************************************************)
EXTENDS Integers, Sequences, FiniteSets, TLC

VARIABLES
    proteins,      \* table proteins
    aliases,       \* table protein_aliases
    interactions,  \* table interactions
    sources,       \* table data_sources
    checkpoints,   \* table processing_checkpoints
    files,         \* the file system: path -> bytes of the file
    now,           \* datetime.utcnow(), in ticks
    run,           \* the ingest_* call in progress (its local variables), or Idle
    last,          \* the last completed call: its name, arguments and result
    hist,          \* history: what was submitted so far, the last finished ingestion
    batch,         \* the call of ingest_all_sources in progress, if any
    edge_sources,  \* MitoNetIntegrator.edge_sources: edge key -> list of observations
    network        \* MitoNetIntegrator.network: edge key -> merged attributes

vars == <<proteins, aliases, interactions, sources, checkpoints, files, now, run, last, hist,
          batch, edge_sources, network>>

\* the state of the MitoNetIntegrator
integrator == <<edge_sources, network>>

----------------------------------------------------------------------------
(* Bounds of the model *)

MaxClock == 5          \* calls made in one behaviour
MaxProteinCalls == 3   \* calls made in one behaviour of SpecProtein
MaxFileLen == 2        \* records (lines) in a file
MaxFaults == 1         \* failed reads of a file in one behaviour
MaxBatches == 2        \* calls of ingest_all_sources in one behaviour
MaxObservations == 3   \* edge observations collected in one behaviour
MantissaBits == 12     \* significand bits of the modelled floats (a double has 53)
MaxCheckpoints == 3    \* calls of save_checkpoint in one behaviour
MaxRuns == 2           \* ingest_* calls made in one behaviour
MaxAddCalls == 3       \* add_interaction calls on one (pair, source) in one behaviour

----------------------------------------------------------------------------
(* Values *)

None == <<>>
Some(v) == <<v>>
Opt(S) == {None} \cup {Some(v) : v \in S}

Min(S) == CHOOSE x \in S : \A y \in S : x <= y
Max2(a, b) == IF a >= b THEN a ELSE b

\* query.first() on one table: the matching row of lowest rowid, 0 for None
First(S) == IF S = {} THEN 0 ELSE Min(S)

Db == [proteins |-> proteins, aliases |-> aliases, interactions |-> interactions,
       sources |-> sources, checkpoints |-> checkpoints]

----------------------------------------------------------------------------
(* MitoNetDatabase *)

\* Protein(uniprot_id=..., **attributes) as INSERTed: a column left unset or
\* set to None takes its Column default.
Protein(uniprot_id, attributes, t) ==
    [uniprot_id |-> uniprot_id,
     gene_symbol |-> attributes.gene_symbol,
     is_mitochondrial |-> IF attributes.is_mitochondrial = None THEN FALSE
                          ELSE attributes.is_mitochondrial[1],
     is_muscle_expressed |-> IF attributes.is_muscle_expressed = None THEN FALSE
                             ELSE attributes.is_muscle_expressed[1],
     muscle_tpm |-> IF attributes.muscle_tpm = None THEN 0 ELSE attributes.muscle_tpm[1],
     created_at |-> t,
     updated_at |-> t]

get_protein_by_uniprot(db, uniprot_id) ==
    First({i \in DOMAIN db.proteins : db.proteins[i].uniprot_id = uniprot_id})

\* the loop with `value is not None` replaced by `not getattr(protein, key)`:
\* a field is written only while it is unset
UpdateProteinAttributesIfUnset(p, attributes, t) ==
    [p EXCEPT
        !.gene_symbol = IF @ = None THEN attributes.gene_symbol ELSE @,
        !.is_mitochondrial = IF ~@ /\ attributes.is_mitochondrial # None
                             THEN attributes.is_mitochondrial[1] ELSE @,
        !.is_muscle_expressed = IF ~@ /\ attributes.is_muscle_expressed # None
                                THEN attributes.is_muscle_expressed[1] ELSE @,
        !.muscle_tpm = IF @ = 0 /\ attributes.muscle_tpm # None
                       THEN attributes.muscle_tpm[1] ELSE @,
        !.updated_at = t]

\* the `for key, value in attributes.items()` loop of get_or_create_protein
UpdateProteinAttributes(p, attributes, t) ==
    [p EXCEPT
        !.gene_symbol = IF attributes.gene_symbol # None
                        THEN attributes.gene_symbol ELSE @,
        !.is_mitochondrial = IF attributes.is_mitochondrial # None
                             THEN attributes.is_mitochondrial[1] ELSE @,
        !.is_muscle_expressed = IF attributes.is_muscle_expressed # None
                                THEN attributes.is_muscle_expressed[1] ELSE @,
        !.muscle_tpm = IF attributes.muscle_tpm # None
                       THEN attributes.muscle_tpm[1] ELSE @,
        !.updated_at = t]

\* get_or_create_protein without the lookup: every call inserts a row
get_or_create_protein_insert(db, uniprot_id, attributes, t) ==
    [db |-> [db EXCEPT !.proteins = Append(@, Protein(uniprot_id, attributes, t))],
     ret |-> Len(db.proteins) + 1,
     existed |-> FALSE]

\* get_or_create_protein without the commit of a new row: the Protein
\* returned for a new accession is not in the store
get_or_create_protein_unsaved(db, uniprot_id, attributes, t) ==
    LET protein == get_protein_by_uniprot(db, uniprot_id) IN
    IF protein = 0
    THEN [db |-> db, ret |-> Len(db.proteins) + 1, existed |-> FALSE]
    ELSE [db |-> [db EXCEPT !.proteins[protein] =
                                UpdateProteinAttributes(@, attributes, t)],
          ret |-> protein,
          existed |-> TRUE]

\* returns the store after the call, the id of the returned Protein and
\* whether the row existed
get_or_create_protein(db, uniprot_id, attributes, t) ==
    LET protein == get_protein_by_uniprot(db, uniprot_id) IN
    IF protein = 0
    THEN [db |-> [db EXCEPT !.proteins = Append(@, Protein(uniprot_id, attributes, t))],
          ret |-> Len(db.proteins) + 1,
          existed |-> FALSE]
    ELSE [db |-> [db EXCEPT !.proteins[protein] =
                                UpdateProteinAttributes(@, attributes, t)],
          ret |-> protein,
          existed |-> TRUE]

\* DataSource(name, version, file_path, source_metadata=metadata): the
\* keyword arguments of get_or_create_data_source (**metadata) are stored in
\* the JSON column; the columns file_size and file_hash are not assigned.
DataSource(name, version, file_path, metadata, t) ==
    [name |-> name,
     version |-> version,
     file_path |-> file_path,
     file_size |-> None,
     file_hash |-> None,
     last_updated |-> t,
     source_metadata |-> metadata]

FindDataSource(db, name, version) ==
    First({i \in DOMAIN db.sources :
              db.sources[i].name = name /\ db.sources[i].version = version})

\* get_or_create_data_source looking the record up by its file path too
get_or_create_data_source_by_path(db, name, version, file_path, metadata, t) ==
    LET source == First({i \in DOMAIN db.sources :
                            /\ db.sources[i].name = name
                            /\ db.sources[i].version = version
                            /\ db.sources[i].file_path = file_path}) IN
    IF source = 0
    THEN [db |-> [db EXCEPT !.sources =
                      Append(@, DataSource(name, version, file_path, metadata, t))],
          ret |-> Len(db.sources) + 1,
          existed |-> FALSE]
    ELSE [db |-> db, ret |-> source, existed |-> TRUE]

get_or_create_data_source(db, name, version, file_path, metadata, t) ==
    LET source == FindDataSource(db, name, version) IN
    IF source = 0
    THEN [db |-> [db EXCEPT !.sources =
                      Append(@, DataSource(name, version, file_path, metadata, t))],
          ret |-> Len(db.sources) + 1,
          existed |-> FALSE]
    ELSE [db |-> db, ret |-> source, existed |-> TRUE]

ProteinAlias(protein_id, alias_type, alias_value, source_id) ==
    [protein_id |-> protein_id, alias_type |-> alias_type,
     alias_value |-> alias_value, source_id |-> source_id]

\* protein is the primary key of the Protein passed (session.merge reloads
\* it by that key); source is a DataSource id, or 0 for None
add_protein_alias(db, protein, alias_type, alias_value, source) ==
    LET existing == First({i \in DOMAIN db.aliases :
                              /\ db.aliases[i].protein_id = protein
                              /\ db.aliases[i].alias_type = alias_type
                              /\ db.aliases[i].alias_value = alias_value}) IN
    IF existing = 0
    THEN [db EXCEPT !.aliases =
             Append(@, ProteinAlias(protein, alias_type, alias_value,
                                    IF source # 0 THEN Some(source) ELSE None))]
    ELSE db

\* The rows of query(Protein).join(ProteinAlias).filter(...): the query has
\* no ORDER BY, so first() is any one of them (None when there is none).
\* alias_type is None or Some(type).
AliasMatches(db, alias_value, alias_type) ==
    {db.aliases[i].protein_id : i \in
        {j \in DOMAIN db.aliases :
            /\ db.aliases[j].alias_value = alias_value
            /\ (alias_type # None => db.aliases[j].alias_type = alias_type[1])
            /\ db.aliases[j].protein_id \in DOMAIN db.proteins}}

find_protein_by_alias(db, alias_value, alias_type) ==
    IF AliasMatches(db, alias_value, alias_type) = {} THEN {0}
    ELSE AliasMatches(db, alias_value, alias_type)

Interaction(protein1_id, protein2_id, source_id, confidence_score, attributes, t) ==
    [protein1_id |-> protein1_id,
     protein2_id |-> protein2_id,
     source_id |-> source_id,
     confidence_score |-> confidence_score,
     evidence_type |-> attributes.evidence_type,
     interaction_type |-> attributes.interaction_type,
     source_specific_id |-> attributes.source_specific_id,
     source_scores |-> attributes.source_scores,
     created_at |-> t]

\* add_interaction without the swap
UnorderedPair(protein1, protein2) == <<protein1, protein2>>

\* `if protein1.id > protein2.id: protein1, protein2 = protein2, protein1`
OrderedPair(protein1, protein2) ==
    IF protein1 > protein2 THEN <<protein2, protein1>> ELSE <<protein1, protein2>>

FindInteraction(db, protein1_id, protein2_id, source_id) ==
    First({i \in DOMAIN db.interactions :
              /\ db.interactions[i].protein1_id = protein1_id
              /\ db.interactions[i].protein2_id = protein2_id
              /\ db.interactions[i].source_id = source_id})

\* `existing.confidence_score = confidence_score`: the latest value wins
LatestConfidence(stored, confidence_score) == confidence_score

\* `existing.confidence_score = max(existing.confidence_score or 0, confidence_score)`
MergeConfidence(stored, confidence_score) ==
    Max2(IF stored = 0 THEN 0 ELSE stored, confidence_score)

\* the attributes are set only by a call whose confidence is not below the
\* stored one
UpdateInteraction_keep_best(existing, confidence_score, attributes) ==
    IF confidence_score < existing.confidence_score
    THEN existing
    ELSE [existing EXCEPT
             !.confidence_score = confidence_score,
             !.evidence_type = IF attributes.evidence_type # None
                               THEN attributes.evidence_type ELSE @,
             !.interaction_type = IF attributes.interaction_type # None
                                  THEN attributes.interaction_type ELSE @,
             !.source_specific_id = IF attributes.source_specific_id # None
                                    THEN attributes.source_specific_id ELSE @,
             !.source_scores = IF attributes.source_scores # None
                               THEN attributes.source_scores ELSE @]

\* the attributes of the call (None: keyword not supplied) are set on the row
UpdateInteraction(existing, confidence_score, attributes) ==
    [existing EXCEPT
        !.confidence_score = MergeConfidence(@, confidence_score),
        !.evidence_type = IF attributes.evidence_type # None
                          THEN attributes.evidence_type ELSE @,
        !.interaction_type = IF attributes.interaction_type # None
                             THEN attributes.interaction_type ELSE @,
        !.source_specific_id = IF attributes.source_specific_id # None
                               THEN attributes.source_specific_id ELSE @,
        !.source_scores = IF attributes.source_scores # None
                          THEN attributes.source_scores ELSE @]

\* protein1, protein2 and source are the primary keys of the objects passed
add_interaction(db, protein1, protein2, source, confidence_score, attributes, t) ==
    LET pair == OrderedPair(protein1, protein2)
        existing == FindInteraction(db, pair[1], pair[2], source) IN
    IF existing # 0
    THEN [db |-> [db EXCEPT !.interactions[existing] =
                      UpdateInteraction(@, confidence_score, attributes)],
          ret |-> existing,
          existed |-> TRUE]
    ELSE [db |-> [db EXCEPT !.interactions =
                      Append(@, Interaction(pair[1], pair[2], source,
                                            confidence_score, attributes, t))],
          ret |-> Len(db.interactions) + 1,
          existed |-> FALSE]

ProcessingCheckpoint(name, phase, status, data, t) ==
    [checkpoint_name |-> name, phase |-> phase, status |-> status, data |-> data,
     created_at |-> t,
     completed_at |-> IF status = "completed" THEN Some(t) ELSE None]

save_checkpoint(db, name, phase, data, status, t) ==
    [db EXCEPT !.checkpoints = Append(@, ProcessingCheckpoint(name, phase, status, data, t))]

\* filter_by(checkpoint_name=name, status='completed')
CompletedCheckpoints(db, name) ==
    {i \in DOMAIN db.checkpoints : /\ db.checkpoints[i].checkpoint_name = name
                                   /\ db.checkpoints[i].status = "completed"}

load_checkpoint_oldest(db, name) ==
    IF CompletedCheckpoints(db, name) = {} THEN {None}
    ELSE {Some(db.checkpoints[i].data) : i \in
             {i \in CompletedCheckpoints(db, name) :
                 \A j \in CompletedCheckpoints(db, name) :
                     db.checkpoints[j].created_at >= db.checkpoints[i].created_at}}

\* The values load_checkpoint can return: the data of a row that
\* order_by(created_at.desc()).first() can put first (any of the rows of
\* greatest created_at), None when no row matches.
load_checkpoint(db, name) ==
    IF CompletedCheckpoints(db, name) = {} THEN {None}
    ELSE {Some(db.checkpoints[i].data) : i \in
             {i \in CompletedCheckpoints(db, name) :
                 \A j \in CompletedCheckpoints(db, name) :
                     db.checkpoints[j].created_at <= db.checkpoints[i].created_at}}

----------------------------------------------------------------------------
(* Files.  A file is a sequence of record codes; pandas parses each code   *)
(* to the record the catalogue of that file format gives it.               *)

AliasesPath == "string/9606.protein.aliases.v12.0.txt.gz"
InfoPath == "string/9606.protein.info.v12.0.txt.gz"
LinksPath == "string/9606.protein.links.detailed.v12.0.txt.gz"
PhysicalLinksPath == "string/9606.protein.physical.links.detailed.v12.0.txt.gz"
MitoCartaPath == "mitocarta/Human.MitoCarta3.0.xls"
HpaPath == "hpa/hpa_skm.tsv"
TestPath == "test_file.txt"
Paths == {AliasesPath, InfoPath, LinksPath, PhysicalLinksPath, MitoCartaPath, HpaPath,
          TestPath}

\* an empty field of a record, as pandas reads it (a float, not a string)
NaN == "nan"

\* records of a STRING aliases file: #string_protein_id, alias, source
AliasRecords ==
    <<[string_protein_id |-> "9606.ENSP1", alias |-> "P12345", source |-> "UniProt_AC"],
      [string_protein_id |-> "9606.ENSP1", alias |-> "ATP1A1", source |-> "UniProt_GN"],
      [string_protein_id |-> "9606.ENSP2", alias |-> "Q67890", source |-> "UniProt_AC"],
      [string_protein_id |-> "9606.ENSP1", alias |-> "Q67890", source |-> "UniProt_AC"],
      [string_protein_id |-> "9606.ENSP1", alias |-> "1433B_HUMAN", source |-> "UniProt_ID"],
      [string_protein_id |-> NaN, alias |-> NaN, source |-> NaN]>>

\* records of a STRING links file: protein1, protein2, the sub-scores, and
\* combined_score: Some(number), or None where the field holds text
LinkRecords ==
    <<[protein1 |-> "9606.ENSP1", protein2 |-> "9606.ENSP2", experimental |-> 450,
       database |-> 300, textmining |-> 100, combined_score |-> Some(650)],
      [protein1 |-> "9606.ENSP2", protein2 |-> "9606.ENSP1", experimental |-> 100,
       database |-> 400, textmining |-> 200, combined_score |-> Some(500)],
      [protein1 |-> "9606.ENSP1", protein2 |-> "9606.ENSP3", experimental |-> 100,
       database |-> 150, textmining |-> 300, combined_score |-> Some(900)],
      [protein1 |-> "9606.ENSP1", protein2 |-> "9606.ENSP2", experimental |-> 450,
       database |-> 300, textmining |-> 100, combined_score |-> None]>>

\* records of the MitoCarta sheet: Symbol, MitoCarta3.0_SubMitoLocalization
MitoCartaRecords ==
    <<[Symbol |-> "ATP1A1", SubMitoLocalization |-> "IMS"],
      [Symbol |-> "CYC1", SubMitoLocalization |-> "Matrix"]>>

\* records of the HPA table: Gene, Tissue RNA - skeletal muscle [nTPM] (tenths)
HpaRecords ==
    <<[Gene |-> "ATP1A1", nTPM |-> 456],
      [Gene |-> "MYOD1", nTPM |-> 0],
      [Gene |-> "CYC1", nTPM |-> 1234]>>

\* records of a file of no known format
TestRecords == <<[line |-> "a"], [line |-> "b"]>>

Records(path) ==
    CASE path = AliasesPath -> AliasRecords
      [] path = LinksPath -> LinkRecords
      [] path = PhysicalLinksPath -> LinkRecords
      [] path = MitoCartaPath -> MitoCartaRecords
      [] path = HpaPath -> HpaRecords
      [] OTHER -> TestRecords

\* pd.read_csv / pd.read_excel: the records of the file, in file order
ReadRecords(path, bytes) == [i \in DOMAIN bytes |-> Records(path)[bytes[i]]]

SeqsUpTo(S, n) == UNION {[1..k -> S] : k \in 0..n}

Contents(path) == SeqsUpTo(DOMAIN Records(path), MaxFileLen)

\* the base of the digest: above every record code
HashBase == Len(AliasRecords) + 1

\* hashlib.sha256 of the bytes: equal for equal contents, different for
\* different ones (a positional digest of the record codes)
RECURSIVE calculate_file_hash(_)
calculate_file_hash(bytes) ==
    IF bytes = <<>> THEN 0
    ELSE calculate_file_hash(SubSeq(bytes, 1, Len(bytes) - 1)) * HashBase
         + bytes[Len(bytes)]

\* file_path.stat().st_size: every record is one line of the same width
st_size(bytes) == Len(bytes)

\* The substrings of the file name that _extract_version_from_filename tests
NameTokens(path) ==
    CASE path \in {AliasesPath, InfoPath, LinksPath, PhysicalLinksPath} -> {"v12.0"}
      [] path = MitoCartaPath -> {"MitoCarta3.0"}
      [] OTHER -> {}

\* mday is the file's modification date (strftime('%Y%m%d'))
_extract_version_from_filename(path, mday) ==
    IF "v12.0" \in NameTokens(path) THEN "v12.0"
    ELSE IF "v11.5" \in NameTokens(path) THEN "v11.5"
    ELSE IF "4.4.246" \in NameTokens(path) THEN "4.4.246"
    ELSE IF "MitoCarta3.0" \in NameTokens(path) THEN "3.0"
    ELSE IF "MitoCarta2.0" \in NameTokens(path) THEN "2.0"
    ELSE mday

\* `if not version: version = self._extract_version_from_filename(file_path)`
ResolveVersion(version, path, file) ==
    IF version = None THEN _extract_version_from_filename(path, file.mday)
    ELSE version[1]

----------------------------------------------------------------------------
(* DataIngestionManager *)

\* the result of needs_update; existing_source.file_hash and .file_size are
\* the columns of the DataSource row
needs_update(db, fs, source_name, file_path, version) ==
    IF fs[file_path] = None THEN FALSE
    ELSE LET file == fs[file_path][1]
             current_hash == calculate_file_hash(file.bytes)
             current_size == st_size(file.bytes)
             existing_source ==
                 FindDataSource(db, source_name, ResolveVersion(version, file_path, file))
         IN IF existing_source = 0 THEN TRUE
            ELSE IF \/ db.sources[existing_source].file_hash # Some(current_hash)
                    \/ db.sources[existing_source].file_size # Some(current_size)
                 THEN TRUE
                 ELSE FALSE

\* the keyword arguments every ingest_* passes to get_or_create_data_source
FileMetadata(bytes) ==
    [file_size |-> Some(st_size(bytes)), file_hash |-> Some(calculate_file_hash(bytes))]

NoMetadata == [file_size |-> None, file_hash |-> None]

NoAttributes ==
    [gene_symbol |-> None, is_mitochondrial |-> None,
     is_muscle_expressed |-> None, muscle_tpm |-> None]

_classify_string_evidence_ties_first(row) ==
    IF row.experimental >= row.database /\ row.experimental >= row.textmining
    THEN "experimental"
    ELSE IF row.database >= row.textmining THEN "database"
    ELSE "text_mining"

_classify_string_evidence(row) ==
    IF row.experimental > Max2(row.database, row.textmining) THEN "experimental"
    ELSE IF row.database > row.textmining THEN "database"
    ELSE "text_mining"

\* `'UniProt_GN' in alias_source or 'BLAST_UniProt_GN' in alias_source`
IsGeneNameSource(alias_source) == alias_source \in {"UniProt_GN", "BLAST_UniProt_GN"}

\* One row of ingest_string_aliases: the stores the row can leave, each with
\* the increment of aliases_added.  The gene_symbol and updated_at assigned
\* in the UniProt_GN branch are set on the detached existing_protein, and the
\* session committed there is a new one that holds no object: nothing is
\* written.
AliasRow(db, row, source, t) ==
    IF row.source = "UniProt_AC"
    THEN LET r == get_or_create_protein(db, row.alias, NoAttributes, t) IN
         {[db |-> add_protein_alias(r.db, r.ret, "string", row.string_protein_id, source),
           added |-> 1]}
    ELSE IF IsGeneNameSource(row.source)
    THEN {IF existing_protein # 0
          THEN [db |-> add_protein_alias(db, existing_protein, "symbol", row.alias, source),
                added |-> 1]
          ELSE [db |-> db, added |-> 0] :
             existing_protein \in
                 find_protein_by_alias(db, row.string_protein_id, Some("string"))}
    ELSE {[db |-> db, added |-> 0]}

\* ingest_string_interactions creating a Protein for an identifier that has
\* no alias
LinkRow_CreateOnMiss(db, row, source_name, source, t) ==
    {IF protein1 # 0 /\ protein2 # 0 /\ protein1 # protein2
     THEN [db |-> add_interaction(db, protein1, protein2, source, row.combined_score[1],
                      [evidence_type |-> Some(_classify_string_evidence(row)),
                       interaction_type |-> Some("functional"),
                       source_specific_id |-> Some(<<row.protein1, row.protein2>>),
                       source_scores |-> None],
                      t).db,
           added |-> 1]
     ELSE [db |-> add_protein_alias(
                      get_or_create_protein(db, row.protein2, NoAttributes, t).db,
                      get_or_create_protein(db, row.protein2, NoAttributes, t).ret,
                      "string", row.protein2, source),
           added |-> 0] :
        protein1 \in find_protein_by_alias(db, row.protein1, Some("string")),
        protein2 \in find_protein_by_alias(db, row.protein2, Some("string"))}

\* One row of ingest_string_interactions
LinkRow(db, row, source_name, source, t) ==
    {IF protein1 # 0 /\ protein2 # 0 /\ protein1 # protein2
     THEN [db |-> add_interaction(db, protein1, protein2, source, row.combined_score[1],
                      [evidence_type |-> Some(_classify_string_evidence(row)),
                       interaction_type |->
                           Some(IF source_name = "STRING_physical"
                                THEN "physical" ELSE "functional"),
                       source_specific_id |-> Some(<<row.protein1, row.protein2>>),
                       source_scores |-> Some([experimental |-> row.experimental,
                                               database |-> row.database,
                                               textmining |-> row.textmining])],
                      t).db,
           added |-> 1]
     ELSE [db |-> db, added |-> 0] :
        protein1 \in find_protein_by_alias(db, row.protein1, Some("string")),
        protein2 \in find_protein_by_alias(db, row.protein2, Some("string"))}

\* One row of ingest_mitocarta: is_mitochondrial and the mitocarta_* fields
\* are assigned to the detached protein that find_protein_by_alias returned;
\* the session committed is a new one that holds no object.
MitoCartaRow(db, row, t) ==
    {[db |-> db, added |-> IF protein # 0 THEN 1 ELSE 0] :
        protein \in find_protein_by_alias(db, row.Symbol, Some("symbol"))}

\* One row of ingest_hpa_muscle: as ingest_mitocarta, for rows with nTPM > 0
HpaRow(db, row, t) ==
    IF row.nTPM > 0
    THEN {[db |-> db, added |-> IF protein # 0 THEN 1 ELSE 0] :
             protein \in find_protein_by_alias(db, row.Gene, Some("symbol"))}
    ELSE {[db |-> db, added |-> 0]}

----------------------------------------------------------------------------
(* Inputs of the calls *)

Uniprots == {"P12345", "Q67890"}

\* every combination of supplied / not supplied keyword arguments
AllAttributes ==
    [gene_symbol : Opt({"ATP1A1", "MYOD1"}),
     is_mitochondrial : Opt(BOOLEAN),
     is_muscle_expressed : Opt(BOOLEAN),
     muscle_tpm : Opt({456})]

\* the keyword arguments the callers of the repository pass
AliasArgs == {<<"string", "9606.ENSP1">>, <<"string", "9606.ENSP2">>,
              <<"symbol", "ATP1A1">>}

VersionArgs == {None, Some("1.0")}
Confidences == {0, 500, 800, 900}

InteractionAttributes ==
    [evidence_type : Opt({"experimental"}),
     interaction_type : Opt({"physical"}),
     source_specific_id : {None},
     source_scores : {None}]

Idle == [pc |-> "idle"]

\* no call of ingest_all_sources is in progress
NoBatch == [pc |-> "none"]

\* `source_files` of ingest_all_sources
source_files ==
    <<<<"STRING_aliases", AliasesPath>>, <<"STRING_info", InfoPath>>,
      <<"STRING_full", LinksPath>>, <<"STRING_physical", PhysicalLinksPath>>,
      <<"MitoCarta", MitoCartaPath>>, <<"HPA_muscle", HpaPath>>>>

SourceNames == {source_files[i][1] : i \in DOMAIN source_files}

NoCall == [op |-> "none"]

----------------------------------------------------------------------------
(* State *)

Commit(db) ==
    /\ proteins' = db.proteins
    /\ aliases' = db.aliases
    /\ interactions' = db.interactions
    /\ sources' = db.sources
    /\ checkpoints' = db.checkpoints

\* an empty store (initialize_db) and the data directory
\* the store initialize_db creates: every table empty
InitialDb == [proteins |-> <<>>, aliases |-> <<>>, interactions |-> <<>>,
              sources |-> <<>>, checkpoints |-> <<>>]

\* {}
EmptyDict == [key \in {} |-> <<>>]

InitBase ==
    /\ proteins = <<>>
    /\ aliases = <<>>
    /\ interactions = <<>>
    /\ sources = <<>>
    /\ checkpoints = <<>>
    /\ now = 0
    /\ run = Idle
    /\ last = NoCall
    /\ hist = [passed |-> {}, submitted |-> {}, prev |-> None, runs |-> 0, faults |-> 0,
               batches |-> 0, ingested |-> [name \in SourceNames |-> None]]
    /\ batch = NoBatch

InitStore ==
    /\ InitBase
    /\ edge_sources = EmptyDict
    /\ network = EmptyDict

File(bytes) == Some([bytes |-> bytes, mday |-> "20240101"])

Init ==
    /\ InitStore
    /\ files = [path \in Paths |-> IF path = TestPath THEN File(<<1>>) ELSE None]

----------------------------------------------------------------------------
(* Calls of the MitoNetDatabase methods *)

CallGetOrCreateProtein(attributeSets, maxCalls) ==
    /\ run = Idle
    /\ now < maxCalls
    /\ \E uniprot_id \in Uniprots, attributes \in attributeSets :
          LET r == get_or_create_protein(Db, uniprot_id, attributes, now + 1) IN
          /\ Commit(r.db)
          /\ last' = [op |-> "get_or_create_protein", uniprot_id |-> uniprot_id,
                      attributes |-> attributes, ret |-> r.ret, existed |-> r.existed]
          /\ hist' = [hist EXCEPT !.passed = @ \cup {uniprot_id}]
    /\ now' = now + 1
    /\ UNCHANGED integrator
    /\ UNCHANGED <<files, run, batch>>

CallAddProteinAlias ==
    /\ run = Idle
    /\ now < MaxClock
    /\ \E protein \in DOMAIN proteins, a \in AliasArgs, source \in {0} \cup DOMAIN sources :
          /\ Commit(add_protein_alias(Db, protein, a[1], a[2], source))
          /\ last' = [op |-> "add_protein_alias", protein |-> protein,
                      alias_type |-> a[1], alias_value |-> a[2],
                      claimed |-> AliasMatches(Db, a[2], Some(a[1]))]
    /\ now' = now + 1
    /\ UNCHANGED integrator
    /\ UNCHANGED <<files, run, hist, batch>>

CallFindProteinByAlias ==
    /\ run = Idle
    /\ \E a \in AliasArgs, alias_type \in BOOLEAN :
       \E protein \in find_protein_by_alias(Db, a[2], IF alias_type THEN Some(a[1]) ELSE None) :
          last' = [op |-> "find_protein_by_alias", alias_value |-> a[2],
                   alias_type |-> IF alias_type THEN Some(a[1]) ELSE None,
                   ret |-> protein]
    /\ UNCHANGED integrator
    /\ UNCHANGED <<proteins, aliases, interactions, sources, checkpoints, files, now, run, hist, batch>>

CallAddInteractionWith(firsts, seconds, confidences, attribute_set, max_clock) ==
    /\ run = Idle
    /\ now < max_clock
    /\ \E protein1 \in firsts, protein2 \in seconds,
          source \in DOMAIN sources, confidence_score \in confidences,
          attributes \in attribute_set :
          LET r == add_interaction(Db, protein1, protein2, source, confidence_score,
                                   attributes, now + 1) IN
          /\ Commit(r.db)
          /\ last' = [op |-> "add_interaction", protein1 |-> protein1,
                      protein2 |-> protein2, source |-> source,
                      confidence_score |-> confidence_score, attributes |-> attributes,
                      ret |-> r.ret, existed |-> r.existed]
          /\ hist' = [hist EXCEPT !.submitted = @ \cup
                         {<<{protein1, protein2}, source, confidence_score>>}]
    /\ now' = now + 1
    /\ UNCHANGED integrator
    /\ UNCHANGED <<files, run, batch>>

CallAddInteraction ==
    CallAddInteractionWith(DOMAIN proteins, DOMAIN proteins, Confidences,
                           InteractionAttributes, MaxClock)

\* the keyword arguments ingest_string_interactions passes for one pair of
\* STRING identifiers, each supplied or not
StringAttributes ==
    [evidence_type : Opt({"experimental", "database"}),
     interaction_type : Opt({"physical"}),
     source_specific_id : Opt({"9606.ENSP1___9606.ENSP2"}),
     source_scores : Opt({[experimental |-> 900, database |-> 0],
                          [experimental |-> 0, database |-> 500]})]

\* repeated observations of one pair from one source
CallAddInteractionAgain ==
    CallAddInteractionWith({1}, {2}, {500, 900}, StringAttributes, 2 + MaxAddCalls)

CallGetOrCreateDataSourceAt(names, versions, paths, withMetadata) ==
    /\ run = Idle
    /\ now < MaxClock
    /\ \E name \in names, version \in versions, file_path \in paths,
          with_metadata \in withMetadata :
          LET metadata == IF with_metadata /\ files[file_path] # None
                          THEN FileMetadata(files[file_path][1].bytes) ELSE NoMetadata
              r == get_or_create_data_source(Db, name, version, file_path, metadata, now + 1)
          IN
          /\ Commit(r.db)
          /\ last' = [op |-> "get_or_create_data_source", name |-> name,
                      version |-> version, file_path |-> file_path,
                      metadata |-> metadata, ret |-> r.ret, existed |-> r.existed]
    /\ now' = now + 1
    /\ UNCHANGED integrator
    /\ UNCHANGED <<files, run, hist, batch>>

CallGetOrCreateDataSource(names, versions, withMetadata) ==
    CallGetOrCreateDataSourceAt(names, versions, {TestPath}, withMetadata)

CallNeedsUpdate ==
    /\ run = Idle
    /\ \E source_name \in {"TEST_SOURCE"}, file_path \in {TestPath}, version \in VersionArgs :
          last' = [op |-> "needs_update", source_name |-> source_name,
                   file_path |-> file_path, version |-> version,
                   ret |-> needs_update(Db, files, source_name, file_path, version)]
    /\ UNCHANGED integrator
    /\ UNCHANGED <<proteins, aliases, interactions, sources, checkpoints, files, now, run, hist, batch>>

CheckpointNames == {"test_checkpoint", "quality_control"}
CheckpointData == {"processed_1000", "processed_2000"}
CheckpointStatuses == {"completed", "in_progress", "failed"}

CallSaveCheckpoint ==
    /\ run = Idle
    /\ Len(checkpoints) < MaxCheckpoints
    /\ \E name \in CheckpointNames, data \in CheckpointData, status \in CheckpointStatuses :
          /\ Commit(save_checkpoint(Db, name, "test_phase", data, status, now + 1))
          /\ last' = [op |-> "save_checkpoint", name |-> name, data |-> data,
                      status |-> status]
    /\ now' = now + 1
    /\ UNCHANGED integrator
    /\ UNCHANGED <<files, run, hist, batch>>

CallLoadCheckpoint ==
    /\ run = Idle
    /\ \E name \in CheckpointNames \cup {"nonexistent"} :
       \E data \in load_checkpoint(Db, name) :
          last' = [op |-> "load_checkpoint", name |-> name, ret |-> data]
    /\ UNCHANGED integrator
    /\ UNCHANGED <<proteins, aliases, interactions, sources, checkpoints, files, now, run, hist, batch>>

\* the environment rewrites, creates or removes a file
WriteFile(paths) ==
    /\ run = Idle
    /\ batch = NoBatch
    /\ now < MaxClock
    /\ \E path \in paths :
       \E file \in {None} \cup {File(bytes) : bytes \in Contents(path)} :
          /\ files[path] # file
          /\ files' = [files EXCEPT ![path] = file]
          /\ last' = [op |-> "write_file", path |-> path]
    /\ now' = now + 1
    /\ UNCHANGED integrator
    /\ UNCHANGED <<proteins, aliases, interactions, sources, checkpoints, run, hist, batch>>

----------------------------------------------------------------------------
(* Calls of the ingest_* methods.  A call is a sequence of steps: the      *)
(* registration of the data source, one step per record of the file, and   *)
(* the return.  The program is single-threaded: no other call is made      *)
(* while one is in progress.                                               *)

ChunkSizes == {1, 2}

IngestMethods == {"ingest_string_aliases", "ingest_string_interactions",
                  "ingest_mitocarta", "ingest_hpa_muscle"}

\* the methods that read the file in chunks and save a checkpoint per chunk
Chunked(method) == method \in {"ingest_string_aliases", "ingest_string_interactions"}

\* what identifies "the same ingestion of the same unchanged file"
RunKey(r) == <<r.method, r.source_name, r.file_path, r.version, r.bytes>>

\* the head of an ingest_* method: the version, the data source, the reader
BeginIngest(method, source_name, file_path, chunk_size) ==
    /\ LET file == files[file_path][1]
           version == ResolveVersion(None, file_path, file)
           r == get_or_create_data_source(Db, source_name, version, file_path,
                                          FileMetadata(file.bytes), now + 1)
           started == [pc |-> "rows", method |-> method, source_name |-> source_name,
                       file_path |-> file_path, version |-> version,
                       bytes |-> file.bytes, source |-> r.ret,
                       rows |-> ReadRecords(file_path, file.bytes),
                       pos |-> 0, chunk_size |-> chunk_size,
                       total_processed |-> 0, added |-> 0,
                       before |-> Db, repeat |-> FALSE]
       IN /\ Commit(r.db)
          /\ run' = [started EXCEPT !.repeat =
                        /\ hist.prev # None
                        /\ hist.prev[1].key = RunKey(started)
                        /\ hist.prev[1].after = Db]
    /\ now' = now + 1
    /\ last' = [op |-> "start", method |-> method]
    /\ UNCHANGED integrator
    /\ UNCHANGED files

\* a call of an ingest_* method by the user of the class
StartIngest(method, source_name, file_path, chunk_size) ==
    /\ run = Idle
    /\ batch = NoBatch
    /\ hist.runs < MaxRuns
    /\ files[file_path] # None
    /\ BeginIngest(method, source_name, file_path, chunk_size)
    /\ hist' = [hist EXCEPT !.runs = @ + 1]
    /\ UNCHANGED batch

IngestStringAliasesStart ==
    \E chunk_size \in ChunkSizes :
        StartIngest("ingest_string_aliases", "STRING_aliases", AliasesPath, chunk_size)

IngestStringInteractionsStart ==
    \E source_name \in {"STRING_full", "STRING_physical"}, chunk_size \in ChunkSizes :
        StartIngest("ingest_string_interactions", source_name, LinksPath, chunk_size)

IngestMitocartaStart ==
    StartIngest("ingest_mitocarta", "MitoCarta", MitoCartaPath, 0)

IngestHpaMuscleStart ==
    StartIngest("ingest_hpa_muscle", "HPA_muscle", HpaPath, 0)

\* the positions of the records of the chunk that holds record r.pos + 1
ChunkOf(r) ==
    LET first == ((r.pos \div r.chunk_size) * r.chunk_size) + 1
    IN {j \in DOMAIN r.rows : first <= j /\ j < first + r.chunk_size}

\* The record r.pos + 1 raises.  ingest_string_aliases: `'UniProt_GN' in
\* alias_source` is a TypeError when the source field is empty (a float).
\* ingest_string_interactions: a combined_score that is text makes the column
\* of its chunk a column of strings, and `row.get('combined_score', 0) /
\* 1000.0` is a TypeError for every record of that chunk.
RowRaises(r) ==
    CASE r.method = "ingest_string_aliases" ->
             r.rows[r.pos + 1].source = NaN
      [] r.method = "ingest_string_interactions" ->
             \E j \in ChunkOf(r) : r.rows[j].combined_score = None
      [] OTHER -> FALSE

\* the body of the `for _, row in ...iterrows()` loop of the method
RowOutcomes(db, r, row, t) ==
    CASE r.method = "ingest_string_aliases" -> AliasRow(db, row, r.source, t)
      [] r.method = "ingest_string_interactions" ->
             LinkRow(db, row, r.source_name, r.source, t)
      [] r.method = "ingest_mitocarta" -> MitoCartaRow(db, row, t)
      [] OTHER -> HpaRow(db, row, t)

\* the record is the last of its chunk
\* a checkpoint only after a chunk of the full chunk size
EndsChunk_full_chunks_only(r) ==
    /\ Chunked(r.method)
    /\ (r.pos + 1) % r.chunk_size = 0

EndsChunk(r) ==
    /\ Chunked(r.method)
    /\ \/ (r.pos + 1) % r.chunk_size = 0
       \/ r.pos + 1 = Len(r.rows)

CheckpointName(r) ==
    <<IF r.method = "ingest_string_aliases" THEN "string_aliases" ELSE r.source_name,
      r.version, "chunk", (r.pos \div r.chunk_size) + 1>>

\* One record of the file; after the last record of a chunk, the checkpoint
IngestRow ==
    /\ run # Idle
    /\ run.pos < Len(run.rows)
    /\ ~RowRaises(run)
    /\ \E out \in RowOutcomes(Db, run, run.rows[run.pos + 1], now + 1) :
          LET total_processed == run.total_processed + 1
              added == run.added + out.added
          IN /\ Commit(IF EndsChunk(run)
                       THEN save_checkpoint(out.db, CheckpointName(run),
                                IF run.method = "ingest_string_aliases"
                                THEN "alias_ingestion" ELSE "interaction_ingestion",
                                [total_processed |-> total_processed, added |-> added],
                                "completed", now + 1)
                       ELSE out.db)
             /\ run' = [run EXCEPT !.pos = @ + 1,
                                   !.total_processed = total_processed,
                                   !.added = added]
    /\ now' = now + 1
    /\ last' = [op |-> "row", method |-> run.method]
    /\ UNCHANGED integrator
    /\ UNCHANGED <<files, hist, batch>>

\* ingest_all_sources without the try/except: the exception ends the loop
Uncaught == [batch EXCEPT !.i = Len(source_files) + 1, !.failed = @ \cup {run.source_name}]

\* `except Exception as e: logger.error(...)`: the loop of
\* ingest_all_sources goes on with the next source
Caught == [batch EXCEPT !.i = @ + 1, !.failed = @ \cup {run.source_name}]

\* `sources[source_name] = self.ingest_...(...)`
Assigned == [batch EXCEPT !.i = @ + 1, !.sources = @ \cup {run.source_name}]

\* the call ends with an exception: what was committed stays
Raise ==
    /\ run' = Idle
    /\ batch' = IF batch = NoBatch THEN batch ELSE Caught
    /\ last' = [op |-> run.method, ret |-> 0, raised |-> TRUE, repeat |-> run.repeat,
                before |-> run.before, source_name |-> run.source_name,
                version |-> run.version, pos |-> run.pos]
    /\ UNCHANGED integrator
    /\ UNCHANGED <<proteins, aliases, interactions, sources, checkpoints, files, now>>

\* the record raises: there is no try/except in the loops
IngestRowRaises ==
    /\ run # Idle
    /\ run.pos < Len(run.rows)
    /\ RowRaises(run)
    /\ Raise
    /\ hist' = [hist EXCEPT !.prev = Some([key |-> RunKey(run), after |-> Db,
                                           before |-> run.before, raised |-> TRUE])]

\* reading the file fails (an I/O or decoding error): pd.read_csv raises
\* when the next chunk is fetched, pd.read_excel and the unchunked
\* pd.read_csv when the file is read
IngestReadFails ==
    /\ run # Idle
    /\ hist.faults < MaxFaults
    /\ run.pos < Len(run.rows)
    /\ IF Chunked(run.method) THEN run.pos % run.chunk_size = 0 ELSE run.pos = 0
    /\ Raise
    /\ hist' = [hist EXCEPT !.prev = Some([key |-> RunKey(run), after |-> Db,
                                           before |-> run.before, raised |-> TRUE]),
                            !.faults = @ + 1]

\* `return source`
IngestReturn ==
    /\ run # Idle
    /\ run.pos = Len(run.rows)
    /\ run' = Idle
    /\ batch' = IF batch = NoBatch THEN batch ELSE Assigned
    /\ last' = [op |-> run.method, ret |-> run.source, raised |-> FALSE,
                repeat |-> run.repeat, before |-> run.before,
                source_name |-> run.source_name, version |-> run.version,
                pos |-> run.pos]
    /\ hist' = [hist EXCEPT !.prev = Some([key |-> RunKey(run), after |-> Db,
                                           before |-> run.before, raised |-> FALSE]),
                            !.ingested[run.source_name] = Some(run.bytes)]
    /\ UNCHANGED integrator
    /\ UNCHANGED <<proteins, aliases, interactions, sources, checkpoints, files, now>>

----------------------------------------------------------------------------
(* ingest_all_sources: the loop over source_files.  The ingest_* call of   *)
(* a source runs by the steps above and returns to the loop.               *)

\* `chunk_size: int = 50000`
DefaultChunkSize == 50000

\* the ingest_* method the loop calls for a source name
MethodOf(source_name) ==
    CASE source_name = "STRING_aliases" -> "ingest_string_aliases"
      [] source_name \in {"STRING_full", "STRING_physical"} -> "ingest_string_interactions"
      [] source_name = "MitoCarta" -> "ingest_mitocarta"
      [] source_name = "HPA_muscle" -> "ingest_hpa_muscle"
      [] OTHER -> "none"

IngestAllSourcesStart ==
    /\ run = Idle
    /\ batch = NoBatch
    /\ hist.batches < MaxBatches
    /\ \E force_update \in BOOLEAN :
          batch' = [pc |-> "loop", i |-> 1, force_update |-> force_update,
                    sources |-> {}, attempted |-> {}, failed |-> {},
                    stale |-> {source_files[i][1] : i \in
                                 {j \in DOMAIN source_files :
                                     /\ files[source_files[j][2]] # None
                                     /\ hist.ingested[source_files[j][1]] #
                                           Some(files[source_files[j][2]][1].bytes)}}]
    /\ last' = [op |-> "start_all"]
    /\ hist' = [hist EXCEPT !.batches = @ + 1]
    /\ UNCHANGED integrator
    /\ UNCHANGED <<proteins, aliases, interactions, sources, checkpoints, files, now, run>>

\* one pass of `for source_name, file_path in source_files`, up to the call
\* of the ingest_* method
IngestAllSourcesNext ==
    /\ batch # NoBatch
    /\ run = Idle
    /\ batch.i <= Len(source_files)
    /\ LET source_name == source_files[batch.i][1]
           file_path == source_files[batch.i][2]
       IN IF /\ files[file_path] # None
             /\ batch.force_update \/ needs_update(Db, files, source_name, file_path, None)
             /\ MethodOf(source_name) # "none"
          THEN /\ BeginIngest(MethodOf(source_name), source_name, file_path,
                              IF Chunked(MethodOf(source_name))
                              THEN DefaultChunkSize ELSE 0)
               /\ batch' = [batch EXCEPT !.attempted = @ \cup {source_name}]
          ELSE /\ batch' = [batch EXCEPT !.i = @ + 1]
               /\ last' = [op |-> "skip", source_name |-> source_name]
               /\ UNCHANGED <<proteins, aliases, interactions, sources, checkpoints,
                              files, now, run>>
    /\ UNCHANGED integrator
    /\ UNCHANGED hist

\* `return sources`
IngestAllSourcesReturn ==
    /\ batch # NoBatch
    /\ run = Idle
    /\ batch.i > Len(source_files)
    /\ batch' = NoBatch
    /\ last' = [op |-> "ingest_all_sources", ret |-> batch.sources,
                force_update |-> batch.force_update, attempted |-> batch.attempted,
                failed |-> batch.failed, stale |-> batch.stale]
    /\ UNCHANGED integrator
    /\ UNCHANGED <<proteins, aliases, interactions, sources, checkpoints, files, now, run,
                   hist>>

----------------------------------------------------------------------------
(* Specifications: the calls of one part of the store each *)

NextProtein == CallGetOrCreateProtein(AllAttributes, MaxProteinCalls)

SpecProtein == Init /\ [][NextProtein]_vars

NextAlias ==
    \/ CallGetOrCreateProtein({NoAttributes}, MaxClock)
    \/ CallAddProteinAlias
    \/ CallFindProteinByAlias

SpecAlias == Init /\ [][NextAlias]_vars

NextInteraction ==
    \/ CallGetOrCreateProtein({NoAttributes}, MaxClock)
    \/ CallGetOrCreateDataSource({"TEST_SOURCE"}, {"1.0", "2.0"}, {FALSE})
    \/ CallAddInteraction

SpecInteraction == Init /\ [][NextInteraction]_vars

\* two proteins and one data source are stored, no interaction yet
InitOverwrite ==
    /\ proteins = <<Protein("P12345", NoAttributes, 1), Protein("Q67890", NoAttributes, 1)>>
    /\ aliases = <<>>
    /\ interactions = <<>>
    /\ sources = <<DataSource("STRING_full", "12.0", LinksPath, NoMetadata, 2)>>
    /\ checkpoints = <<>>
    /\ files = [path \in Paths |-> None]
    /\ now = 2
    /\ run = Idle
    /\ last = NoCall
    /\ hist = [passed |-> {}, submitted |-> {}, prev |-> None, runs |-> 0, faults |-> 0,
               batches |-> 0, ingested |-> [name \in SourceNames |-> None]]
    /\ batch = NoBatch
    /\ edge_sources = EmptyDict
    /\ network = EmptyDict

NextOverwrite == CallAddInteractionAgain

SpecOverwrite == InitOverwrite /\ [][NextOverwrite]_vars

NextSource ==
    \/ WriteFile({TestPath})
    \/ CallGetOrCreateDataSource({"TEST_SOURCE"}, {"1.0", "20240101"}, BOOLEAN)
    \/ CallNeedsUpdate

SpecSource == Init /\ [][NextSource]_vars

NextDataSource ==
    CallGetOrCreateDataSourceAt({"TEST", "DEMO_SOURCE"}, {"1.0", "2.0"},
                                {TestPath, AliasesPath}, {FALSE})

SpecDataSource == Init /\ [][NextDataSource]_vars

NextCheckpoint ==
    \/ CallSaveCheckpoint
    \/ CallLoadCheckpoint

SpecCheckpoint == Init /\ [][NextCheckpoint]_vars

\* the data directory holds the four source files; the aliases file is any
\* file of the bounded length
InitIngest ==
    /\ InitStore
    /\ \E aliasBytes \in Contents(AliasesPath) :
          files = [path \in Paths |->
                      CASE path = AliasesPath -> File(aliasBytes)
                        [] path = LinksPath -> File(<<1, 2, 3>>)
                        [] path = MitoCartaPath -> File(<<1, 2>>)
                        [] path = HpaPath -> File(<<1, 2, 3>>)
                        [] OTHER -> None]

NextIngest ==
    \/ IngestStringAliasesStart
    \/ IngestStringInteractionsStart
    \/ IngestMitocartaStart
    \/ IngestHpaMuscleStart
    \/ IngestRow
    \/ IngestRowRaises
    \/ IngestReturn

SpecIngest == InitIngest /\ [][NextIngest]_vars

\* the aliases file is any file of the bounded length followed by one more
\* record; the links file holds a record whose combined_score is text
InitRecovery ==
    /\ InitStore
    /\ \E aliasBytes \in Contents(AliasesPath) :
          files = [path \in Paths |->
                      CASE path = AliasesPath -> File(aliasBytes \o <<3>>)
                        [] path = LinksPath -> File(<<1, 4>>)
                        [] OTHER -> None]

NextRecovery ==
    \/ IngestStringAliasesStart
    \/ IngestStringInteractionsStart
    \/ IngestRow
    \/ IngestRowRaises
    \/ IngestReadFails
    \/ IngestReturn

SpecRecovery == InitRecovery /\ [][NextRecovery]_vars

\* the data directory holds some of the source files
InitAll ==
    /\ InitStore
    /\ \E aliasBytes \in Contents(AliasesPath), present \in SUBSET {MitoCartaPath} :
          files = [path \in Paths |->
                      CASE path = AliasesPath -> File(aliasBytes)
                        [] path = InfoPath -> File(<<1>>)
                        [] path = LinksPath -> File(<<1>>)
                        [] path = MitoCartaPath /\ path \in present -> File(<<1>>)
                        [] OTHER -> None]

NextAll ==
    \/ IngestAllSourcesStart
    \/ IngestAllSourcesNext
    \/ IngestRow
    \/ IngestRowRaises
    \/ IngestReturn
    \/ IngestAllSourcesReturn
    \/ WriteFile({AliasesPath})

SpecAll == InitAll /\ [][NextAll]_vars

----------------------------------------------------------------------------
(* NetworkExporter.  A list of ORM objects is a sequence: a Protein is     *)
(* named by its id, an Interaction by <<id, session>>, since the class     *)
(* defines no __eq__ and two sessions load one row as two objects.         *)

\* the elements of a set of integers in ascending order
RECURSIVE Sorted(_)
Sorted(S) == IF S = {} THEN <<>> ELSE <<Min(S)>> \o Sorted(S \ {Min(S)})

Range(seq) == {seq[i] : i \in DOMAIN seq}

\* a criterion that is None or an empty set does not filter
Unset(criterion) == criterion = None \/ criterion[1] = {}

_get_filtered_proteins(db, network_filter) ==
    Sorted({p \in DOMAIN db.proteins :
        /\ network_filter.include_mitochondrial # None =>
              db.proteins[p].is_mitochondrial = network_filter.include_mitochondrial[1]
        /\ ~Unset(network_filter.gene_symbols) =>
              /\ db.proteins[p].gene_symbol # None
              /\ db.proteins[p].gene_symbol[1] \in network_filter.gene_symbols[1]
        /\ ~Unset(network_filter.uniprot_ids) =>
              db.proteins[p].uniprot_id \in network_filter.uniprot_ids[1]})

\* the rows the criteria of _get_filtered_interactions accept
Accepts(db, network_filter, i) ==
    /\ network_filter.min_confidence # None =>
          db.interactions[i].confidence_score >= network_filter.min_confidence[1]
    /\ network_filter.max_confidence # None =>
          db.interactions[i].confidence_score <= network_filter.max_confidence[1]
    /\ ~Unset(network_filter.evidence_types) =>
          /\ db.interactions[i].evidence_type # None
          /\ db.interactions[i].evidence_type[1] \in network_filter.evidence_types[1]
    /\ ~Unset(network_filter.interaction_types) =>
          /\ db.interactions[i].interaction_type # None
          /\ db.interactions[i].interaction_type[1] \in network_filter.interaction_types[1]

\* `Interaction.source.name` is evaluated when data_sources is set: a
\* relationship attribute has no attribute `name`, so the call raises
FilterRaises(network_filter) == ~Unset(network_filter.data_sources)

_get_filtered_interactions(db, network_filter, protein_list) ==
    LET ids == Sorted({i \in DOMAIN db.interactions :
                          /\ db.interactions[i].protein1_id \in Range(protein_list)
                          /\ db.interactions[i].protein2_id \in Range(protein_list)
                          /\ Accepts(db, network_filter, i)})
    IN [k \in DOMAIN ids |-> <<ids[k], "filter">>]

\* a single hop, whatever neighbor_levels is
_expand_neighbors_one_hop(db, protein_list, interaction_list, neighbor_levels) ==
    IF neighbor_levels = 0
    THEN [proteins |-> protein_list, interactions |-> interaction_list]
    ELSE LET incident == Sorted({i \in DOMAIN db.interactions :
                            \/ db.interactions[i].protein1_id \in Range(protein_list)
                            \/ db.interactions[i].protein2_id \in Range(protein_list)})
             added == [k \in DOMAIN incident |-> <<incident[k], "expand">>]
             new_protein_ids ==
                 UNION {{db.interactions[i].protein1_id, db.interactions[i].protein2_id} :
                        i \in Range(incident)}
         IN [proteins |-> protein_list \o Sorted(new_protein_ids \ Range(protein_list)),
             interactions |-> interaction_list \o added]

_expand_neighbors(db, protein_list, interaction_list, neighbor_levels) ==
    LET RECURSIVE Level(_, _, _, _)
        Level(current_protein_ids, plist, all_interactions, levels) ==
            IF levels = 0 THEN [proteins |-> plist, interactions |-> all_interactions]
            ELSE LET new_interactions ==
                         LET ids == Sorted({i \in DOMAIN db.interactions :
                                    \/ db.interactions[i].protein1_id \in current_protein_ids
                                    \/ db.interactions[i].protein2_id \in current_protein_ids})
                         IN [k \in DOMAIN ids |-> <<ids[k], "expand">>]
                     added == SelectSeq(new_interactions,
                                        LAMBDA o : o \notin Range(all_interactions))
                     new_protein_ids ==
                         UNION {{db.interactions[o[1]].protein1_id,
                                 db.interactions[o[1]].protein2_id} : o \in Range(added)}
                 IN IF new_protein_ids \ current_protein_ids # {}
                    THEN Level(current_protein_ids \cup new_protein_ids,
                               plist \o Sorted(new_protein_ids \ current_protein_ids),
                               all_interactions \o added, levels - 1)
                    ELSE [proteins |-> plist, interactions |-> all_interactions \o added]
    IN Level(Range(protein_list), protein_list, interaction_list, neighbor_levels)

\* a degree that counts the rows where the protein is protein1 only
degree_count_protein1(db, interaction_list, protein) ==
    Cardinality({k \in DOMAIN interaction_list :
                    db.interactions[interaction_list[k][1]].protein1_id = protein})

\* degree_count.get(protein.id, 0)
degree_count(db, interaction_list, protein) ==
    Cardinality({k \in DOMAIN interaction_list : db.interactions[interaction_list[k][1]].protein1_id = protein})
    + Cardinality({k \in DOMAIN interaction_list : db.interactions[interaction_list[k][1]].protein2_id = protein})

_apply_degree_filters_keep_edges(db, protein_list, interaction_list, network_filter) ==
    [proteins |-> SelectSeq(protein_list, LAMBDA p :
                      /\ network_filter.min_degree # None =>
                            degree_count(db, interaction_list, p) >= network_filter.min_degree[1]
                      /\ network_filter.max_degree # None =>
                            degree_count(db, interaction_list, p) <= network_filter.max_degree[1]),
     interactions |-> interaction_list]

_apply_degree_filters(db, protein_list, interaction_list, network_filter) ==
    IF network_filter.min_degree = None /\ network_filter.max_degree = None
    THEN [proteins |-> protein_list, interactions |-> interaction_list]
    ELSE LET filtered_proteins ==
                 SelectSeq(protein_list, LAMBDA p :
                     /\ ~(/\ network_filter.min_degree # None
                          /\ degree_count(db, interaction_list, p) < network_filter.min_degree[1])
                     /\ ~(/\ network_filter.max_degree # None
                          /\ degree_count(db, interaction_list, p) > network_filter.max_degree[1]))
             remaining_protein_ids == Range(filtered_proteins)
         IN [proteins |-> filtered_proteins,
             interactions |-> SelectSeq(interaction_list, LAMBDA o :
                 /\ db.interactions[o[1]].protein1_id \in remaining_protein_ids
                 /\ db.interactions[o[1]].protein2_id \in remaining_protein_ids)]

\* export_network up to the lists the graph and the files are built from
export_network(db, network_filter) ==
    LET proteins0 == _get_filtered_proteins(db, network_filter)
        interactions0 == _get_filtered_interactions(db, network_filter, proteins0)
        expanded == IF network_filter.include_neighbors > 0
                    THEN _expand_neighbors(db, proteins0, interactions0,
                                           network_filter.include_neighbors)
                    ELSE [proteins |-> proteins0, interactions |-> interactions0]
        degree == _apply_degree_filters(db, expanded.proteins, expanded.interactions,
                                        network_filter)
    IN [filtered |-> [proteins |-> proteins0, interactions |-> interactions0],
        expanded |-> expanded,
        proteins |-> degree.proteins,
        interactions |-> degree.interactions]

MaxNeighbors == 2
NetworkFilters ==
    [include_mitochondrial : {None},
     gene_symbols : {None},
     uniprot_ids : {None, Some({"P12345"}), Some({"P12345", "O00002"})},
     min_confidence : {None, Some(800)},
     max_confidence : {None},
     evidence_types : {None, Some({"experimental"})},
     interaction_types : {None},
     data_sources : {None, Some({"TEST_SOURCE"})},
     include_neighbors : 0..MaxNeighbors,
     min_degree : {None, Some(1), Some(2)},
     max_degree : {None, Some(1)}]

\* one export of the store per behaviour
CallExportNetwork ==
    /\ run = Idle
    /\ last = NoCall
    /\ \E network_filter \in NetworkFilters :
          last' = IF FilterRaises(network_filter)
                  THEN [op |-> "export_network", network_filter |-> network_filter,
                        raised |-> TRUE]
                  ELSE [op |-> "export_network", network_filter |-> network_filter,
                        raised |-> FALSE, ret |-> export_network(Db, network_filter)]
    /\ UNCHANGED integrator
    /\ UNCHANGED <<proteins, aliases, interactions, sources, checkpoints, files, now, run, hist, batch>>

\* the stores exported: four proteins, one data source, and any choice of
\* interactions among four pairs
ExportUniprots == <<"P12345", "Q67890", "O00001", "O00002">>
ExportPairs == <<<<1, 2>>, <<1, 3>>, <<2, 3>>, <<3, 4>>>>
ExportConfidences == {500, 900}

ExportInteractions(choice) ==
    LET chosen == SelectSeq(ExportPairs, LAMBDA pair : choice[pair] # None)
    IN [k \in DOMAIN chosen |->
           Interaction(chosen[k][1], chosen[k][2], 1, choice[chosen[k]][1],
                       [evidence_type |-> Some(IF choice[chosen[k]][1] >= 800
                                               THEN "experimental" ELSE "database"),
                        interaction_type |-> Some("physical"),
                        source_specific_id |-> None,
                        source_scores |-> None], 2)]

InitExport ==
    /\ proteins = [p \in DOMAIN ExportUniprots |-> Protein(ExportUniprots[p], NoAttributes, 1)]
    /\ aliases = <<>>
    /\ sources = <<DataSource("TEST_SOURCE", "1.0", TestPath, NoMetadata, 1)>>
    /\ \E choice \in [Range(ExportPairs) -> Opt(ExportConfidences)] :
          interactions = ExportInteractions(choice)
    /\ checkpoints = <<>>
    /\ files = [path \in Paths |-> None]
    /\ now = 2
    /\ run = Idle
    /\ last = NoCall
    /\ hist = [passed |-> {}, submitted |-> {}, prev |-> None, runs |-> 0, faults |-> 0,
               batches |-> 0, ingested |-> [name \in SourceNames |-> None]]
    /\ batch = NoBatch
    /\ edge_sources = EmptyDict
    /\ network = EmptyDict

NextExport == CallExportNetwork

SpecExport == InitExport /\ [][NextExport]_vars

----------------------------------------------------------------------------
(* Floating-point numbers.  A float is <<m, e>>, the number m * 2^e, with  *)
(* m = 0 or 2^(MantissaBits-1) <= m < 2^MantissaBits; every operation      *)
(* rounds its exact result to the nearest float, ties to even, as IEEE 754 *)
(* arithmetic does.  A double has 53 significand bits; the model keeps     *)
(* MantissaBits of them.                                                   *)

Pow2(n) == 2 ^ n

\* the quotient n / d rounded to an integer, ties to even
RoundHalfEven(n, d) ==
    LET q == n \div d
        r == n % d
    IN IF 2 * r > d \/ (2 * r = d /\ q % 2 = 1) THEN q + 1 ELSE q

\* the float nearest to (n / d) * 2^e, for integers n >= 0 and d > 0
RECURSIVE RoundQ(_, _, _)
RoundQ(n, d, e) ==
    IF n = 0 THEN <<0, 0>>
    ELSE IF n >= Pow2(MantissaBits) * d THEN RoundQ(n, 2 * d, e + 1)
    ELSE IF n < Pow2(MantissaBits - 1) * d THEN RoundQ(2 * n, d, e - 1)
    ELSE LET m == RoundHalfEven(n, d)
         IN IF m = Pow2(MantissaBits) THEN <<Pow2(MantissaBits - 1), e + 1>>
            ELSE <<m, e>>

\* the float of a decimal literal num/den, and of an int
Float(num, den) == RoundQ(num, den, 0)

\* the integers a and b scaled to a common exponent
Aligned(a, b) ==
    LET e == IF a[2] < b[2] THEN a[2] ELSE b[2]
    IN [a |-> a[1] * Pow2(a[2] - e), b |-> b[1] * Pow2(b[2] - e), e |-> e]

FAdd(a, b) ==
    IF a[1] = 0 THEN b
    ELSE IF b[1] = 0 THEN a
    ELSE RoundQ(Aligned(a, b).a + Aligned(a, b).b, 1, Aligned(a, b).e)

FMul(a, b) == RoundQ(a[1] * b[1], 1, a[2] + b[2])

\* b is not zero
FDiv(a, b) == RoundQ(a[1], b[1], a[2] - b[2])

FLeq(a, b) ==
    IF a[1] = 0 THEN TRUE
    ELSE IF b[1] = 0 THEN FALSE
    ELSE Aligned(a, b).a <= Aligned(a, b).b

FMax(a, b) == IF FLeq(a, b) THEN b ELSE a

----------------------------------------------------------------------------
(* MitoNetIntegrator: phase 4, the multi-source network *)

\* the sub-scores a STRING row can carry
MaxScore == 2
SubScores == 0..MaxScore

_classify_biogrid_interaction_type(exp_system) ==
    IF exp_system \in {"Affinity Capture-MS", "Reconstituted Complex"} THEN "physical"
    ELSE IF exp_system \in {"Synthetic Lethality"} THEN "genetic"
    ELSE "physical"

\* tuple(sorted([uniprot1, uniprot2])) over the accessions of the model
UniprotOrder == <<"P12345", "Q67890">>
Rank(uniprot) == CHOOSE i \in 1..Len(UniprotOrder) : UniprotOrder[i] = uniprot
edge_key(uniprot1, uniprot2) ==
    IF Rank(uniprot1) <= Rank(uniprot2) THEN <<uniprot1, uniprot2>> ELSE <<uniprot2, uniprot1>>

\* the order in which build_network reads the sources
Stages == <<"STRING_full", "STRING_physical", "BioGRID", "Reactome", "CORUM">>
Stage(source) == CHOOSE i \in 1..Len(Stages) : Stages[i] = source

Observations == UNION {{edge_sources[key][i] : i \in 1..Len(edge_sources[key])} :
                       key \in DOMAIN edge_sources}
NumObservations ==
    LET RECURSIVE Count(_)
        Count(keys) == IF keys = {} THEN 0
                       ELSE LET key == CHOOSE k \in keys : TRUE
                            IN Len(edge_sources[key]) + Count(keys \ {key})
    IN Count(DOMAIN edge_sources)

\* if edge_key not in self.edge_sources: self.edge_sources[edge_key] = []
\* self.edge_sources[edge_key].append(edge_data)
Append_edge(dict, key, edge_data) ==
    [k \in DOMAIN dict \cup {key} |->
        IF k = key THEN (IF key \in DOMAIN dict THEN dict[key] ELSE <<>>) \o <<edge_data>>
        ELSE dict[k]]

\* one row of a _process_*_network loop that passes the filters
StoreEdge(uniprot1, uniprot2, edge_data) ==
    /\ run = Idle
    /\ batch = NoBatch
    /\ network = EmptyDict
    /\ NumObservations < MaxObservations
    /\ \A o \in Observations : Stage(o.source) <= Stage(edge_data.source)
    /\ edge_sources' = Append_edge(edge_sources, edge_key(uniprot1, uniprot2), edge_data)
    /\ last' = [op |-> "edge", edge_data |-> edge_data]
    /\ UNCHANGED <<proteins, aliases, interactions, sources, checkpoints, files, now, run, hist,
                   batch, network>>

ProcessStringRow(source_labels, rows) ==
    \E source_label \in source_labels, uniprot1 \in Uniprots, uniprot2 \in Uniprots,
       row \in rows :
        /\ uniprot1 # uniprot2
        /\ StoreEdge(uniprot1, uniprot2,
               [source |-> source_label,
                confidence_score |-> Float(row.combined_score, 1),
                experimental_score |-> row.experimental,
                database_score |-> row.database,
                textmining_score |-> row.textmining,
                evidence_type |-> _classify_string_evidence(row),
                interaction_type |-> IF source_label = "STRING_physical" THEN "physical"
                                     ELSE "functional"])

ProcessBioGRIDRow ==
    \E uniprot1 \in Uniprots, uniprot2 \in Uniprots,
       exp_system \in {"Affinity Capture-MS", "Synthetic Lethality"} :
        /\ uniprot1 # uniprot2
        /\ StoreEdge(uniprot1, uniprot2,
               [source |-> "BioGRID", confidence_score |-> Float(1, 1),
                evidence_type |-> "experimental",
                interaction_type |-> _classify_biogrid_interaction_type(exp_system)])

ProcessReactomeRow ==
    \E uniprot1 \in Uniprots, uniprot2 \in Uniprots :
        /\ uniprot1 # uniprot2
        /\ StoreEdge(uniprot1, uniprot2,
               [source |-> "Reactome", confidence_score |-> Float(8, 10),
                evidence_type |-> "database", interaction_type |-> "pathway_derived"])

ProcessCORUMPair ==
    \E uniprot1 \in Uniprots, uniprot2 \in Uniprots :
        /\ uniprot1 # uniprot2
        /\ StoreEdge(uniprot1, uniprot2,
               [source |-> "CORUM", confidence_score |-> Float(9, 10),
                evidence_type |-> "database", interaction_type |-> "co_complex"])

source_weights_uniform(source) == Float(1, 1)

\* source_weights.get(source, 0.5)
source_weights(source) ==
    CASE source = "STRING_physical" -> Float(9, 10)
      [] source = "STRING_full" -> Float(7, 10)
      [] source = "BioGRID" -> Float(1, 1)
      [] source = "Reactome" -> Float(8, 10)
      [] source = "CORUM" -> Float(9, 10)
      [] OTHER -> Float(5, 10)

RECURSIVE weighted_sum(_)
weighted_sum(source_list) ==
    IF source_list = <<>> THEN <<0, 0>>
    ELSE LET n == Len(source_list)
             source_data == source_list[n]
         IN FAdd(weighted_sum(SubSeq(source_list, 1, n - 1)),
                 FMul(source_data.confidence_score, source_weights(source_data.source)))

RECURSIVE total_weight(_)
total_weight(source_list) ==
    IF source_list = <<>> THEN <<0, 0>>
    ELSE LET n == Len(source_list)
         IN FAdd(total_weight(SubSeq(source_list, 1, n - 1)),
                 source_weights(source_list[n].source))

_calculate_composite_confidence(source_list) ==
    IF total_weight(source_list)[1] > 0
    THEN FDiv(weighted_sum(source_list), total_weight(source_list))
    ELSE Float(5, 10)

RECURSIVE SumConfidence(_)
SumConfidence(source_list) ==
    IF source_list = <<>> THEN <<0, 0>>
    ELSE LET n == Len(source_list)
         IN FAdd(SumConfidence(SubSeq(source_list, 1, n - 1)), source_list[n].confidence_score)

RECURSIVE MaxConfidence(_)
MaxConfidence(source_list) ==
    LET n == Len(source_list)
    IN IF n = 1 THEN source_list[1].confidence_score
       ELSE FMax(MaxConfidence(SubSeq(source_list, 1, n - 1)), source_list[n].confidence_score)

\* merged_attrs[f"{source_name}_{key}"] = value: the last observation of a source wins
SourceSpecific(source_list) ==
    [source \in {source_list[i].source : i \in 1..Len(source_list)} |->
        LET i == CHOOSE i \in 1..Len(source_list) :
                     /\ source_list[i].source = source
                     /\ \A j \in (i + 1)..Len(source_list) : source_list[j].source # source
        IN [confidence_score |-> source_list[i].confidence_score,
            evidence_type |-> source_list[i].evidence_type,
            interaction_type |-> source_list[i].interaction_type]]

merged_attrs(source_list) ==
    [sources |-> [i \in 1..Len(source_list) |-> source_list[i].source],
     num_sources |-> Len(source_list),
     max_confidence |-> MaxConfidence(source_list),
     mean_confidence |-> FDiv(SumConfidence(source_list), Float(Len(source_list), 1)),
     evidence_types |-> {source_list[i].evidence_type : i \in 1..Len(source_list)},
     interaction_types |-> {source_list[i].interaction_type : i \in 1..Len(source_list)},
     source_specific |-> SourceSpecific(source_list),
     composite_confidence |-> _calculate_composite_confidence(source_list)]

\* _merge_network_sources
MergeNetworkSources ==
    /\ run = Idle
    /\ batch = NoBatch
    /\ network = EmptyDict
    /\ edge_sources # EmptyDict
    /\ network' = [key \in DOMAIN edge_sources |-> merged_attrs(edge_sources[key])]
    /\ last' = [op |-> "_merge_network_sources"]
    /\ UNCHANGED <<proteins, aliases, interactions, sources, checkpoints, files, now, run, hist,
                   batch, edge_sources>>

\* the rows of the STRING files of the model
ClassifyRows == [combined_score : {1}, experimental : SubScores, database : SubScores,
                 textmining : SubScores]
StringRows == [combined_score : {1, 2}, experimental : {2}, database : {1}, textmining : {0}]

NextClassify == ProcessStringRow({"STRING_full"}, ClassifyRows)

SpecClassify == Init /\ [][NextClassify]_vars

NextNetwork ==
    \/ ProcessStringRow({"STRING_full", "STRING_physical"}, StringRows)
    \/ ProcessBioGRIDRow
    \/ ProcessReactomeRow
    \/ ProcessCORUMPair
    \/ MergeNetworkSources

SpecNetwork == Init /\ [][NextNetwork]_vars

\* _merge_network_sources applied to one pair whose observations are drawn
\* from every source of the weight table and one source absent from it
ConfidenceScores == {Float(6, 10), Float(9, 10), Float(1, 1)}
WeightedSources == {"STRING_physical", "STRING_full", "BioGRID", "Reactome", "CORUM", "IntAct"}
EdgeData == [source : WeightedSources, confidence_score : ConfidenceScores,
             evidence_type : {"database"}, interaction_type : {"physical"}]
MaxSourceList == 2
SourceLists == UNION {[1..n -> EdgeData] : n \in 1..MaxSourceList}

InitComposite ==
    /\ InitBase
    /\ files = [path \in Paths |-> None]
    /\ \E source_list \in SourceLists :
          edge_sources = [key \in {<<"P12345", "Q67890">>} |-> source_list]
    /\ network = EmptyDict

NextComposite == MergeNetworkSources

SpecComposite == InitComposite /\ [][NextComposite]_vars

----------------------------------------------------------------------------
(* Claims *)

\* a call of get_or_create_protein was just made
ProteinCallStep == now' = now + 1 /\ last'.op = "get_or_create_protein"

\* the rows that hold the accession
RowsOf(table, uniprot_id) == {i \in DOMAIN table : table[i].uniprot_id = uniprot_id}

\* C3: once a protein's is_mitochondrial or is_muscle_expressed flag is
\* true, no later step sets it back to false.
C3_FlagsStayTrue ==
    [][\A i \in DOMAIN proteins :
          /\ proteins[i].is_mitochondrial => proteins'[i].is_mitochondrial
          /\ proteins[i].is_muscle_expressed => proteins'[i].is_muscle_expressed]_vars

\* C8: after any sequence of get_or_create_protein calls the store holds
\* exactly one Protein row per accession passed; a call with an accession
\* that exists returns that protein and leaves the number of rows unchanged,
\* a call with a new accession adds one row and returns it.
C8_OneProteinPerAccession ==
    [][ProteinCallStep =>
          LET uniprot_id == last'.uniprot_id IN
          /\ \A u \in hist'.passed : Cardinality(RowsOf(proteins', u)) = 1
          /\ {proteins'[i].uniprot_id : i \in DOMAIN proteins'} = hist'.passed
          /\ RowsOf(proteins, uniprot_id) # {} =>
                /\ RowsOf(proteins, uniprot_id) = {last'.ret}
                /\ Len(proteins') = Len(proteins)
          /\ RowsOf(proteins, uniprot_id) = {} =>
                /\ Len(proteins') = Len(proteins) + 1
                /\ last'.ret = Len(proteins')
          /\ proteins'[last'.ret].uniprot_id = uniprot_id]_vars

\* C8 witness: a second call with an accession that exists returned the row
\* of the first, while another accession has a row of its own
C8_Witness ==
    /\ last.op = "get_or_create_protein"
    /\ last.existed
    /\ proteins[last.ret].uniprot_id = last.uniprot_id
    /\ Len(proteins) = 2
    /\ Cardinality(hist.passed) = 2

\* C9: get_or_create_protein on an accession that exists overwrites each
\* field for which a value is supplied with that value, leaves every field
\* not supplied (or supplied as None) and every other row unchanged, leaves
\* created_at unchanged and advances updated_at.
C9_MergeSuppliedAttributes ==
    [][ProteinCallStep /\ RowsOf(proteins, last'.uniprot_id) # {} =>
          LET a == last'.attributes
              old == proteins[last'.ret]
              new == proteins'[last'.ret]
          IN /\ Len(proteins') = Len(proteins)
             /\ \A j \in DOMAIN proteins : j # last'.ret => proteins'[j] = proteins[j]
             /\ new.uniprot_id = old.uniprot_id
             /\ new.gene_symbol = IF a.gene_symbol # None THEN a.gene_symbol
                                  ELSE old.gene_symbol
             /\ new.is_mitochondrial = IF a.is_mitochondrial # None
                                       THEN a.is_mitochondrial[1]
                                       ELSE old.is_mitochondrial
             /\ new.is_muscle_expressed = IF a.is_muscle_expressed # None
                                          THEN a.is_muscle_expressed[1]
                                          ELSE old.is_muscle_expressed
             /\ new.muscle_tpm = IF a.muscle_tpm # None THEN a.muscle_tpm[1]
                                 ELSE old.muscle_tpm
             /\ new.created_at = old.created_at
             /\ new.updated_at > old.updated_at]_vars

\* C9 witness: a call on an existing accession supplied a new gene symbol
\* and is_mitochondrial = False and no muscle_tpm: the symbol and the flag
\* are the supplied ones, the expression value is the one stored before
C9_Witness ==
    /\ last.op = "get_or_create_protein"
    /\ last.existed
    /\ last.attributes.gene_symbol = Some("MYOD1")
    /\ last.attributes.is_mitochondrial = Some(FALSE)
    /\ last.attributes.muscle_tpm = None
    /\ proteins[last.ret].gene_symbol = Some("MYOD1")
    /\ ~proteins[last.ret].is_mitochondrial
    /\ proteins[last.ret].muscle_tpm = 456
    /\ proteins[last.ret].created_at < proteins[last.ret].updated_at

\* C4: every stored Interaction has protein1_id <= protein2_id, whatever
\* the order of the arguments of add_interaction; no pair is stored in both
\* orders for one source.
C4_CanonicalPair ==
    /\ \A i \in DOMAIN interactions :
          interactions[i].protein1_id <= interactions[i].protein2_id
    /\ \A i, j \in DOMAIN interactions :
          ~ /\ interactions[i].protein1_id # interactions[i].protein2_id
            /\ interactions[i].protein1_id = interactions[j].protein2_id
            /\ interactions[i].protein2_id = interactions[j].protein1_id
            /\ interactions[i].source_id = interactions[j].source_id
    /\ last.op = "add_interaction" =>
          /\ interactions[last.ret].protein1_id =
                Min({last.protein1, last.protein2})
          /\ {interactions[last.ret].protein1_id, interactions[last.ret].protein2_id} =
                {last.protein1, last.protein2}

\* C4 witness: add_interaction was called with the larger id first and the
\* row it returned is stored with the smaller id first
C4_Witness ==
    /\ last.op = "add_interaction"
    /\ last.protein1 > last.protein2
    /\ ~last.existed
    /\ interactions[last.ret].protein1_id = last.protein2
    /\ interactions[last.ret].protein2_id = last.protein1

\* the confidences submitted so far for an unordered pair and a source
SubmittedFor(pair, source) ==
    {s[3] : s \in {x \in hist.submitted : x[1] = pair /\ x[2] = source}}

Max(S) == CHOOSE x \in S : \A y \in S : y <= x

\* C5: add_interaction on a (pair, source) that already has a row creates
\* no row and returns the existing one; the stored confidence_score of a
\* row is the maximum of all the confidences ever submitted for it.
C5_MaxConfidence ==
    /\ \A i, j \in DOMAIN interactions :
          /\ {interactions[i].protein1_id, interactions[i].protein2_id} =
                {interactions[j].protein1_id, interactions[j].protein2_id}
          /\ interactions[i].source_id = interactions[j].source_id
          => i = j
    /\ Len(interactions) =
          Cardinality({<<s[1], s[2]>> : s \in hist.submitted})
    /\ \A i \in DOMAIN interactions :
          LET pair == {interactions[i].protein1_id, interactions[i].protein2_id}
              submitted == SubmittedFor(pair, interactions[i].source_id)
          IN /\ submitted # {}
             /\ interactions[i].confidence_score = Max(submitted)
    /\ last.op = "add_interaction" =>
          /\ {interactions[last.ret].protein1_id, interactions[last.ret].protein2_id} =
                {last.protein1, last.protein2}
          /\ interactions[last.ret].source_id = last.source
          /\ last.existed <=>
                interactions[last.ret].created_at < now

\* C5 witness: a second submission for a row gave a lower confidence than
\* the stored one, in the other argument order, and the row kept the higher
C5_Witness ==
    /\ last.op = "add_interaction"
    /\ last.existed
    /\ last.protein1 > last.protein2
    /\ last.confidence_score = 500
    /\ interactions[last.ret].confidence_score = 900
    /\ Len(interactions) = 1

\* C6: no two ProteinAlias rows with the same (alias_type, alias_value)
\* reference different proteins.
C6_AliasResolvesToOneProtein ==
    \A i, j \in DOMAIN aliases :
       /\ aliases[i].alias_type = aliases[j].alias_type
       /\ aliases[i].alias_value = aliases[j].alias_value
       => aliases[i].protein_id = aliases[j].protein_id

\* C7: when add_protein_alias is called with an (alias_type, alias_value)
\* that is registered to a different protein, the first registration is
\* kept and the later one is ignored: the proteins that
\* find_protein_by_alias(value, type) can return are those it could return
\* before the call.
C7_FirstWriterWins ==
    /\ last.op = "add_protein_alias"
    /\ last.claimed # {}
    /\ last.protein \notin last.claimed
    => find_protein_by_alias(Db, last.alias_value, Some(last.alias_type)) = last.claimed

\* C2: needs_update on a file that exists returns False when the source has
\* been registered (for the version the call resolves) with the file_size
\* and file_hash of the file's current bytes, and True when there is no
\* such record or when the bytes differ from the registered ones.
C2_NeedsUpdateTracksContent ==
    /\ last.op = "needs_update"
    /\ files[last.file_path] # None
    => LET file == files[last.file_path][1]
           existing_source ==
               FindDataSource(Db, last.source_name,
                              ResolveVersion(last.version, last.file_path, file))
       IN last.ret <=>
             \/ existing_source = 0
             \/ sources[existing_source].source_metadata # FileMetadata(file.bytes)

\* a Protein row without the timestamp that get_or_create_protein touches
Untouched(p) == [p EXCEPT !.updated_at = 0]

\* C1: running the same ingestion a second time on the same unchanged file,
\* starting from the store the first run left, leaves the numbers of
\* Protein, ProteinAlias and Interaction rows and their field values
\* unchanged (updated_at, which get_or_create_protein is to advance on every
\* call, is left out of the comparison).
C1_ReingestIsIdempotent ==
    last.op \in IngestMethods /\ last.repeat =>
       /\ Len(proteins) = Len(last.before.proteins)
       /\ \A i \in DOMAIN proteins :
             Untouched(proteins[i]) = Untouched(last.before.proteins[i])
       /\ aliases = last.before.aliases
       /\ interactions = last.before.interactions

\* a step that processes one record of the file being ingested
RowStep == run # Idle /\ run' # Idle /\ run'.pos = run.pos + 1

\* the identifiers a record is looked up by, with the alias kind of the lookup
Identifiers(method, row) ==
    CASE method = "ingest_string_aliases" ->
             IF row.source = "UniProt_AC" \/ IsGeneNameSource(row.source)
             THEN {<<"string", row.string_protein_id>>} ELSE {}
      [] method = "ingest_string_interactions" ->
             {<<"string", row.protein1>>, <<"string", row.protein2>>}
      [] method = "ingest_mitocarta" -> {<<"symbol", row.Symbol>>}
      [] OTHER -> IF row.nTPM > 0 THEN {<<"symbol", row.Gene>>} ELSE {}

Misses(method, row) ==
    {x \in Identifiers(method, row) : AliasMatches(Db, x[2], Some(x[1])) = {}}

RECURSIVE RowsFrom(_, _, _)
RowsFrom(dbs, r, i) ==
    IF i > Len(r.rows) \/ RowRaises([r EXCEPT !.pos = i - 1]) THEN dbs
    ELSE RowsFrom(UNION {{out.db : out \in RowOutcomes(db, r, r.rows[i], 0)} : db \in dbs},
                  r, i + 1)

RunFrom(db, key) ==
    LET reg == get_or_create_data_source(db, key[2], key[4], key[3],
                                         FileMetadata(key[5]), 0)
    IN RowsFrom({reg.db},
                [method |-> key[1], source_name |-> key[2], source |-> reg.ret,
                 rows |-> ReadRecords(key[3], key[5]), chunk_size |-> 1, pos |-> 0], 1)

\* what a store holds, without timestamps, plain scalar fields and the
\* order in which the sources were registered
Holdings(db) ==
    [proteins |-> [i \in DOMAIN db.proteins |->
                      <<db.proteins[i].uniprot_id, db.proteins[i].is_mitochondrial,
                        db.proteins[i].is_muscle_expressed>>],
     aliases |-> {<<db.aliases[i].protein_id, db.aliases[i].alias_type,
                    db.aliases[i].alias_value>> : i \in DOMAIN db.aliases},
     interactions |-> {<<db.interactions[i].protein1_id, db.interactions[i].protein2_id,
                         db.sources[db.interactions[i].source_id].name>> :
                          i \in DOMAIN db.interactions}]

\* the second of two runs on the empty store has processed its last record
SecondRunDone ==
    /\ run # Idle
    /\ run.pos = Len(run.rows)
    /\ hist.prev # None
    /\ hist.prev[1].key[2] # run.source_name

\* C11: for any two sources A and B, ingesting A then B yields the same
\* proteins, aliases, interactions and flags as ingesting B then A.
C11_IngestionCommutes ==
    SecondRunDone =>
       Holdings(Db) \in
          {Holdings(ba) : ba \in UNION {RunFrom(b, hist.prev[1].key) :
                                           b \in RunFrom(InitialDb, RunKey(run))}}

\* the file ingest_all_sources reads for a source name
PathOf(source_name) ==
    source_files[CHOOSE i \in DOMAIN source_files : source_files[i][1] = source_name][2]

\* an ingest_* call has returned for a source that was registered before
\* the call with the fingerprint of other bytes than the file's
ReingestedChangedFile ==
    /\ last.op \in IngestMethods
    /\ ~last.raised
    /\ LET before == FindDataSource(last.before, last.source_name, last.version) IN
       /\ before # 0
       /\ last.before.sources[before].source_metadata #
             FileMetadata(files[PathOf(last.source_name)][1].bytes)

\* C12: after a source file whose bytes changed has been re-ingested under
\* the same (name, version), the DataSource record holds the fingerprint and
\* size of the file just ingested and needs_update returns false for it;
\* ingest_all_sources without force re-processes only the sources whose file
\* differs from what was last ingested.
C12_ReingestRecordsFingerprint ==
    /\ ReingestedChangedFile =>
          /\ sources[last.ret].source_metadata =
                FileMetadata(files[PathOf(last.source_name)][1].bytes)
          /\ ~needs_update(Db, files, last.source_name, PathOf(last.source_name), None)
    /\ last.op = "ingest_all_sources" /\ ~last.force_update =>
          last.attempted = {name \in last.stale : MethodOf(name) # "none"}

\* C13: the DataSource record of a source is recorded once the ingestion
\* completes: a run that aborts partway through the file leaves no
\* DataSource record for its (name, version) behind.
C13_NoRecordAfterAbort ==
    /\ last.op \in IngestMethods
    /\ last.raised
    /\ FindDataSource(last.before, last.source_name, last.version) = 0
    => FindDataSource(Db, last.source_name, last.version) = 0

\* C14: in ingest_string_aliases and ingest_string_interactions a failure on
\* one record is caught and the record skipped: the call does not raise,
\* every record of the file is gone through, and the UniProt_AC records
\* before and after the failing one have their Protein and 'string' alias.
C14_RowFailureIsSkipped ==
    last.op \in {"ingest_string_aliases", "ingest_string_interactions"} =>
       LET rows == ReadRecords(PathOf(last.source_name),
                               files[PathOf(last.source_name)][1].bytes)
       IN /\ ~last.raised
          /\ last.op = "ingest_string_aliases" =>
                \A i \in DOMAIN rows :
                   rows[i].source = "UniProt_AC" =>
                      \E j \in DOMAIN aliases :
                         /\ aliases[j].alias_type = "string"
                         /\ aliases[j].alias_value = rows[i].string_protein_id
                         /\ proteins[aliases[j].protein_id].uniprot_id = rows[i].alias

\* the sources ingest_all_sources has a file and a method for
Ingestible == {name \in SourceNames : MethodOf(name) # "none" /\ files[PathOf(name)] # None}

\* C15: in ingest_all_sources a source whose ingestion raises is absent from
\* the returned mapping, every source whose ingestion returned is in it, and
\* the sources after the failing one are still attempted: with force_update
\* every source that has a file and a method is attempted.
C15_FailureConfinedToSource ==
    /\ batch # NoBatch =>
          /\ batch.sources \cap batch.failed = {}
          /\ batch.sources \cup batch.failed \subseteq batch.attempted
    /\ last.op = "ingest_all_sources" =>
          /\ last.ret = last.attempted \ last.failed
          /\ last.attempted \subseteq Ingestible
          /\ last.force_update => last.attempted = Ingestible

\* C15 witness: ingest_all_sources returned after ingest_string_aliases
\* raised on its second record: STRING_aliases is not in the mapping, the
\* sources after it are
C15_Witness ==
    /\ last.op = "ingest_all_sources"
    /\ last.failed = {"STRING_aliases"}
    /\ last.ret = {"STRING_full", "MitoCarta"}
    /\ Len(proteins) = 1

\* an ingest_* call ends with an exception
AbortStep == run # Idle /\ run' = Idle /\ last'.raised

\* the run that follows an aborted run of the same ingestion on the same
\* file has processed its last record
RerunDone ==
    /\ run # Idle
    /\ run.pos = Len(run.rows)
    /\ hist.prev # None
    /\ hist.prev[1].raised
    /\ hist.prev[1].key = RunKey(run)
    /\ hist.prev[1].after = run.before

\* C16: when an ingestion aborts partway, the Protein, ProteinAlias and
\* Interaction rows written for the earlier records stay in the store
\* unchanged, and re-running the ingestion from the start of the file ends
\* with the proteins, aliases and interactions of an uninterrupted run.
C16_AbortThenRerun ==
    /\ [][AbortStep => /\ proteins' = proteins
                       /\ aliases' = aliases
                       /\ interactions' = interactions]_vars
    /\ [](RerunDone =>
             Holdings(Db) \in {Holdings(whole) :
                                  whole \in RunFrom(hist.prev[1].before, RunKey(run))})

\* the observations read from the STRING files
StringObservations == {o \in Observations : o.source \in {"STRING_full", "STRING_physical"}}

\* C17 (as the code behaves): _classify_string_evidence labels a row
\* 'experimental' exactly when experimental is strictly above both other
\* sub-scores, 'database' exactly when database is strictly above textmining
\* and not below experimental, and 'text_mining' otherwise: a tie for the top
\* score goes to the later label of the order experimental, database,
\* text_mining (experimental tied with database gives 'database', database
\* tied with textmining gives 'text_mining').
C17_TiesGoToLaterLabel ==
    \A o \in StringObservations :
        LET e == o.experimental_score
            d == o.database_score
            t == o.textmining_score
        IN /\ o.evidence_type = "experimental" <=> (e > d /\ e > t)
           /\ o.evidence_type = "database" <=> (d >= e /\ d > t)
           /\ o.evidence_type = "text_mining" <=> (t >= e /\ t >= d)

\* C17 (as claimed): a tie for the top score goes to the earlier label of
\* the order experimental, database, text_mining: experimental tied with
\* database gives 'experimental', database tied with textmining gives
\* 'database'.
C17_TiesGoToEarlierLabel ==
    \A o \in StringObservations :
        LET e == o.experimental_score
            d == o.database_score
            t == o.textmining_score
        IN /\ o.evidence_type = "experimental" <=> (e >= d /\ e >= t)
           /\ o.evidence_type = "database" <=> (d > e /\ d >= t)
           /\ o.evidence_type = "text_mining" <=> (t > e /\ t > d)

\* rows with a tie for the top score were classified: experimental tied with
\* database, and database tied with textmining
C17_Witness ==
    /\ \E o \in StringObservations :
          /\ o.experimental_score = o.database_score
          /\ o.database_score > o.textmining_score
          /\ o.evidence_type = "database"
    /\ \E o \in StringObservations :
          /\ o.database_score = o.textmining_score
          /\ o.database_score > o.experimental_score
          /\ o.evidence_type = "text_mining"

\* the names of the sources that observed the pair
SourceNamesOf(source_list) == {source_list[i].source : i \in 1..Len(source_list)}

\* one observation per source, its maximum confidence one, in the order in
\* which the sources first appear
RECURSIVE BestPerSource(_)
BestPerSource(source_list) ==
    IF source_list = <<>> THEN <<>>
    ELSE LET first == source_list[1]
             Same == {i \in 1..Len(source_list) : source_list[i].source = first.source}
             best == CHOOSE i \in Same :
                         \A j \in Same : FLeq(source_list[j].confidence_score,
                                              source_list[i].confidence_score)
         IN <<source_list[best]>> \o
            BestPerSource(SelectSeq(source_list, LAMBDA o : o.source # first.source))

\* C18: in a merged edge each contributing source counts once, with its
\* maximum confidence observation: num_sources is the number of distinct
\* source names of the pair, and the composite confidence has one term per
\* source.
C18_EachSourceCountsOnce ==
    \A key \in DOMAIN network :
        /\ network[key].num_sources = Cardinality(SourceNamesOf(edge_sources[key]))
        /\ network[key].composite_confidence =
               _calculate_composite_confidence(BestPerSource(edge_sources[key]))

\* the weight table of the specification, in tenths
WeightTenths(source) ==
    CASE source = "STRING_physical" -> 9
      [] source = "STRING_full" -> 7
      [] source = "BioGRID" -> 10
      [] source = "Reactome" -> 8
      [] source = "CORUM" -> 9
      [] OTHER -> 5

MinExponent(source_list) ==
    CHOOSE e \in {source_list[i].confidence_score[2] : i \in 1..Len(source_list)} :
        \A i \in 1..Len(source_list) : e <= source_list[i].confidence_score[2]

\* sum(confidence_s * weight_s) / sum(weight_s) in exact arithmetic: the
\* rational (num / den) * 2^exp
RECURSIVE ExactWeightedSum(_, _)
ExactWeightedSum(source_list, exp) ==
    IF source_list = <<>> THEN 0
    ELSE LET o == source_list[1]
         IN o.confidence_score[1] * Pow2(o.confidence_score[2] - exp) * WeightTenths(o.source)
            + ExactWeightedSum(Tail(source_list), exp)

RECURSIVE ExactTotalWeight(_)
ExactTotalWeight(source_list) ==
    IF source_list = <<>> THEN 0
    ELSE WeightTenths(source_list[1].source) + ExactTotalWeight(Tail(source_list))

ExactComposite(source_list) ==
    [num |-> ExactWeightedSum(source_list, MinExponent(source_list)),
     den |-> ExactTotalWeight(source_list),
     exp |-> MinExponent(source_list)]

Abs(n) == IF n < 0 THEN -n ELSE n

\* the float f is the rational q up to k roundings:
\* |f - q| <= k * 2^-MantissaBits * q
Near(f, q, k) ==
    LET e == IF f[2] < q.exp THEN f[2] ELSE q.exp
        a == f[1] * Pow2(f[2] - e) * q.den
        b == q.num * Pow2(q.exp - e)
    IN Abs(a - b) <= (k * b) \div Pow2(MantissaBits)

Distinct(source_list) == Cardinality(SourceNamesOf(source_list)) = Len(source_list)

\* the scenario of the specification: confidence 0.6 from a source of weight
\* 0.7 and confidence 0.9 from a source of weight 1.0
Scenario ==
    <<[source |-> "STRING_full", confidence_score |-> Float(6, 10),
       evidence_type |-> "database", interaction_type |-> "physical"],
      [source |-> "BioGRID", confidence_score |-> Float(9, 10),
       evidence_type |-> "database", interaction_type |-> "physical"]>>

\* the roundings of a composite over n observations: n products, n - 1
\* additions in each sum, one division
Roundings(n) == 2 * n + 1

\* C19: the composite confidence of a merged edge whose sources each
\* contribute one observation is, up to floating-point rounding,
\* sum(confidence_s * weight_s) / sum(weight_s) with the weights
\* STRING_physical 0.9, STRING_full 0.7, BioGRID 1.0, Reactome 0.8, CORUM 0.9
\* and 0.5 for any other source; confidences 0.6 (weight 0.7) and 0.9
\* (weight 1.0) give (0.42 + 0.9) / 1.7 with two contributing sources.
C19_WeightedMean ==
    \A key \in DOMAIN network :
        LET source_list == edge_sources[key]
        IN /\ Distinct(source_list) =>
                  Near(network[key].composite_confidence, ExactComposite(source_list),
                       Roundings(Len(source_list)))
           /\ source_list = Scenario =>
                  /\ Near(network[key].composite_confidence,
                          [num |-> 132, den |-> 170, exp |-> 0], Roundings(2) + 2)
                  /\ network[key].num_sources = 2

\* the pair of the scenario was merged
C19_Witness ==
    \E key \in DOMAIN network :
        /\ edge_sources[key] = Scenario
        /\ network[key].num_sources = 2

RECURSIVE MinConfidence(_)
MinConfidence(source_list) ==
    LET n == Len(source_list)
    IN IF n = 1 THEN source_list[1].confidence_score
       ELSE LET m == MinConfidence(SubSeq(source_list, 1, n - 1))
            IN IF FLeq(m, source_list[n].confidence_score) THEN m
               ELSE source_list[n].confidence_score

\* C20: the composite confidence of a merged edge lies between the minimum
\* and the maximum of the confidences of its observations, inclusive.
C20_CompositeWithinRange ==
    \A key \in DOMAIN network :
        /\ FLeq(MinConfidence(edge_sources[key]), network[key].composite_confidence)
        /\ FLeq(network[key].composite_confidence, MaxConfidence(edge_sources[key]))

\* the completed checkpoints saved under the name, in the order of saving
SavedCompleted(name) ==
    SelectSeq(checkpoints, LAMBDA c : c.checkpoint_name = name /\ c.status = "completed")

\* C21: load_checkpoint(name) returns the data of the most recently saved
\* checkpoint of that name with status 'completed' (checkpoints saved as
\* 'in_progress' or 'failed' are passed over, and directly after a completed
\* save of the name it returns the data just saved), and None when no
\* completed checkpoint of that name exists; it never changes the store.
C21_LoadReturnsLatestCompleted ==
    /\ [](last.op = "load_checkpoint" =>
             last.ret = IF SavedCompleted(last.name) = <<>> THEN None
                        ELSE Some(SavedCompleted(last.name)[Len(SavedCompleted(last.name))].data))
    /\ [][last'.op = "load_checkpoint" => Db' = Db]_vars
    /\ [][(/\ last.op = "save_checkpoint"
           /\ last.status = "completed"
           /\ last'.op = "load_checkpoint"
           /\ last'.name = last.name) => last'.ret = Some(last.data)]_vars

\* a load returned the later of two completed checkpoints of a name although
\* a checkpoint of that name that is not completed was saved after them
C21_Witness ==
    /\ last.op = "load_checkpoint"
    /\ Len(SavedCompleted(last.name)) = 2
    /\ SavedCompleted(last.name)[1].data # SavedCompleted(last.name)[2].data
    /\ last.ret = Some(SavedCompleted(last.name)[2].data)
    /\ checkpoints[Len(checkpoints)].checkpoint_name = last.name
    /\ checkpoints[Len(checkpoints)].status # "completed"

\* the rows of the HPA file
HpaRows == [i \in DOMAIN files[HpaPath][1].bytes |-> HpaRecords[files[HpaPath][1].bytes[i]]]

\* the proteins the gene is a 'symbol' alias of
ProteinsOfSymbol(db, gene) == find_protein_by_alias(db, gene, Some("symbol")) \ {0}

\* C22: after ingest_hpa_muscle has processed a row with nTPM t > 0 whose
\* Gene is a 'symbol' alias of an existing protein, the stored protein has
\* is_muscle_expressed = true and muscle_tpm = t; a row with nTPM <= 0
\* leaves the protein of its Gene as it was.
C22_MuscleExpressionStored ==
    (last.op = "ingest_hpa_muscle" /\ ~last.raised) =>
        \A i \in DOMAIN HpaRows :
            \A protein \in ProteinsOfSymbol(Db, HpaRows[i].Gene) :
                IF HpaRows[i].nTPM > 0
                THEN /\ proteins[protein].is_muscle_expressed
                     /\ proteins[protein].muscle_tpm = HpaRows[i].nTPM
                ELSE proteins[protein] = last.before.proteins[protein]

\* an export of the store has returned its lists
Exported == last.op = "export_network" /\ ~last.raised

\* the stored interactions with an endpoint in the set
Incident(S) == {i \in DOMAIN interactions :
                   interactions[i].protein1_id \in S \/ interactions[i].protein2_id \in S}

Endpoints(i) == {interactions[i].protein1_id, interactions[i].protein2_id}

\* the proteins within n hops of the set over the stored interactions
RECURSIVE Ball(_, _)
Ball(S, n) == IF n = 0 THEN S
              ELSE Ball(S, n - 1) \cup UNION {Endpoints(i) : i \in Incident(Ball(S, n - 1))}

\* the rows of a list of interaction objects
Rows(interaction_list) == {interaction_list[k][1] : k \in DOMAIN interaction_list}

\* C23: expansion by n hops returns the proteins within n hops of the seed
\* set over the stored interactions, hop by hop (a hop that adds no protein
\* ends it), with the seed interactions and the interactions incident to the
\* proteins within n - 1 hops; 0 hops return the seed proteins and
\* interactions unchanged; 1 hop from a single seed with exactly two
\* incident edges returns the seed with exactly its two neighbours.
C23_ExpansionByHops ==
    Exported =>
        LET n == last.network_filter.include_neighbors
            seed == Range(last.ret.filtered.proteins)
            expanded == last.ret.expanded
        IN /\ Range(expanded.proteins) = Ball(seed, n)
           /\ Len(expanded.proteins) = Cardinality(Ball(seed, n))
           /\ n > 0 => Rows(expanded.interactions) =
                           Rows(last.ret.filtered.interactions) \cup Incident(Ball(seed, n - 1))
           /\ n = 0 => expanded = last.ret.filtered
           /\ (n = 1 /\ Cardinality(seed) = 1 /\ Cardinality(Incident(seed)) = 2) =>
                 /\ Range(expanded.proteins) \ seed = UNION {Endpoints(i) : i \in Incident(seed)} \ seed
                 /\ Cardinality(Range(expanded.proteins) \ seed) = 2
                 /\ Rows(expanded.interactions) = Incident(seed)

\* one hop from a single seed with exactly two incident edges, in a store
\* that holds a further protein two hops away, returned the seed and its
\* two neighbours
C23_Witness ==
    /\ Exported
    /\ last.network_filter.include_neighbors = 1
    /\ Cardinality(Range(last.ret.filtered.proteins)) = 1
    /\ Cardinality(Incident(Range(last.ret.filtered.proteins))) = 2
    /\ Cardinality(Ball(Range(last.ret.filtered.proteins), 2)) = 4
    /\ Cardinality(Range(last.ret.expanded.proteins)) = 3

\* every alias and every interaction of the store references existing rows
ReferencesExist ==
    /\ \A a \in DOMAIN aliases : aliases[a].protein_id \in DOMAIN proteins
    /\ \A i \in DOMAIN interactions :
          /\ interactions[i].protein1_id \in DOMAIN proteins
          /\ interactions[i].protein2_id \in DOMAIN proteins
          /\ interactions[i].source_id \in DOMAIN sources

\* C24: in every reachable store every ProteinAlias row references an
\* existing Protein and every Interaction row references two existing
\* Proteins and one existing DataSource, and no step removes a Protein.
C24_ReferentialIntegrity ==
    /\ []ReferencesExist
    /\ [][/\ Len(proteins') >= Len(proteins)
          /\ \A p \in DOMAIN proteins : proteins'[p].uniprot_id = proteins[p].uniprot_id]_vars

\* the store holds aliases of two proteins and an interaction between them
C24_Witness ==
    /\ Len(interactions) >= 1
    /\ \E a, b \in DOMAIN aliases :
          /\ aliases[a].protein_id = interactions[1].protein1_id
          /\ aliases[b].protein_id = interactions[1].protein2_id
          /\ aliases[a].protein_id # aliases[b].protein_id

\* the DataSource rows of a (name, version)
SourceRows(table, name, version) ==
    {i \in DOMAIN table : table[i].name = name /\ table[i].version = version}

\* C25: the store never holds two DataSource rows of one (name, version):
\* get_or_create_data_source with a (name, version) that exists returns the
\* existing row and leaves the table as it is, whatever file path is
\* passed, and with a (name, version) that does not exist (a new version of
\* a known name included) it adds one row and returns it.
C25_OneSourcePerNameVersion ==
    /\ [](\A i, j \in DOMAIN sources :
             (sources[i].name = sources[j].name /\ sources[i].version = sources[j].version)
             => i = j)
    /\ [][last'.op = "get_or_create_data_source" =>
             IF SourceRows(sources, last'.name, last'.version) # {}
             THEN /\ sources' = sources
                  /\ last'.ret \in SourceRows(sources, last'.name, last'.version)
             ELSE /\ Len(sources') = Len(sources) + 1
                  /\ last'.ret = Len(sources')
                  /\ SubSeq(sources', 1, Len(sources)) = sources
                  /\ sources'[last'.ret].name = last'.name
                  /\ sources'[last'.ret].version = last'.version]_vars

\* a call returned the existing record of its (name, version) although it
\* passed another file path, in a store that holds two versions of the name
C25_Witness ==
    /\ last.op = "get_or_create_data_source"
    /\ last.existed
    /\ sources[last.ret].file_path # last.file_path
    /\ \E i \in DOMAIN sources :
          sources[i].name = last.name /\ sources[i].version # last.version

\* the number of entries of the list that are incident to the protein
Degree(interaction_list, protein) ==
    Cardinality({k \in DOMAIN interaction_list : protein \in Endpoints(interaction_list[k][1])})

WithinDegree(network_filter, degree) ==
    /\ network_filter.min_degree # None => degree >= network_filter.min_degree[1]
    /\ network_filter.max_degree # None => degree <= network_filter.max_degree[1]

\* C26: _apply_degree_filters keeps exactly the proteins of its input whose
\* degree, the number of entries of the input interaction list incident to
\* them, is within the bounds that are set, and exactly the input
\* interactions whose two endpoints are both kept; with no bound set it
\* returns its inputs unchanged.
C26_DegreeFilter ==
    Exported =>
        LET f == last.network_filter
            input == last.ret.expanded
        IN /\ last.ret.proteins =
                  SelectSeq(input.proteins,
                            LAMBDA p : WithinDegree(f, Degree(input.interactions, p)))
           /\ last.ret.interactions =
                  SelectSeq(input.interactions,
                            LAMBDA o : Endpoints(o[1]) \subseteq Range(last.ret.proteins))
           /\ (f.min_degree = None /\ f.max_degree = None) =>
                  /\ last.ret.proteins = input.proteins
                  /\ last.ret.interactions = input.interactions

\* a degree filter removed a protein and an interaction that became
\* dangling, and kept another interaction
C26_Witness ==
    /\ Exported
    /\ last.network_filter.min_degree = Some(2)
    /\ Len(last.ret.proteins) < Len(last.ret.expanded.proteins)
    /\ Len(last.ret.interactions) < Len(last.ret.expanded.interactions)
    /\ Len(last.ret.interactions) > 0

\* C28: with include_neighbors = n > 0 the expansion adds every stored
\* interaction incident to the proteins within n - 1 hops of the filtered
\* ones, whether or not the filter's confidence, evidence-type and
\* interaction-type criteria accept it, and every interaction exported has
\* both endpoints among the exported proteins.
C28_ExpansionIgnoresEdgeCriteria ==
    Exported =>
        /\ last.network_filter.include_neighbors > 0 =>
              Incident(Ball(Range(last.ret.filtered.proteins),
                            last.network_filter.include_neighbors - 1))
                  \subseteq Rows(last.ret.expanded.interactions)
        /\ \A k \in DOMAIN last.ret.interactions :
              Endpoints(last.ret.interactions[k][1]) \subseteq Range(last.ret.proteins)

\* an export with a minimum confidence and neighbours contains an
\* interaction below the minimum, between two of the filtered proteins
C28_Witness ==
    /\ Exported
    /\ last.network_filter.include_neighbors > 0
    /\ last.network_filter.min_confidence # None
    /\ \E k \in DOMAIN last.ret.interactions :
          /\ ~Accepts(Db, last.network_filter, last.ret.interactions[k][1])
          /\ Endpoints(last.ret.interactions[k][1]) \subseteq Range(last.ret.filtered.proteins)

\* the number of the chunk that holds record n of a file read in chunks of
\* `size` records
ChunkNumberOf(n, size) == ((n - 1) \div size) + 1

\* the number of records in chunks 1..k of a file of `len` records
RowsThroughChunk(k, size, len) == IF k * size < len THEN k * size ELSE len

\* C27: ingest_string_aliases and ingest_string_interactions start every run
\* at the first record whatever checkpoints the store holds, take the records
\* in file order, and exactly when record n is the last one of chunk k they
\* append one 'completed' checkpoint named with k whose total_processed is n,
\* the number of records in chunks 1..k; a run that returns has read every
\* record.
C27_ChunkCheckpoints ==
    [][ /\ (run = Idle /\ run' # Idle) =>
              /\ run'.pos = 0
              /\ run'.total_processed = 0
              /\ checkpoints' = checkpoints
        /\ (run # Idle /\ run' # Idle /\ Chunked(run.method)) =>
              LET n == run.pos + 1
                  k == ChunkNumberOf(n, run.chunk_size)
                  saved == checkpoints'[Len(checkpoints')]
              IN /\ run'.pos = n
                 /\ run'.total_processed = n
                 /\ IF n = RowsThroughChunk(k, run.chunk_size, Len(run.rows))
                    THEN /\ Len(checkpoints') = Len(checkpoints) + 1
                         /\ SubSeq(checkpoints', 1, Len(checkpoints)) = checkpoints
                         /\ saved.checkpoint_name[1] =
                               (IF run.method = "ingest_string_aliases"
                                THEN "string_aliases" ELSE run.source_name)
                         /\ saved.checkpoint_name[2] = run.version
                         /\ saved.checkpoint_name[4] = k
                         /\ saved.status = "completed"
                         /\ saved.data.total_processed = n
                    ELSE checkpoints' = checkpoints
        /\ (run # Idle /\ run' = Idle /\ ~last'.raised) => run.pos = Len(run.rows)
      ]_vars

\* the second run over the links file, read in chunks of two records, has
\* finished its second chunk (a single record): the store holds the
\* checkpoint of the same name of the first run and the new one, both with
\* total_processed 3
C27_Witness ==
    /\ run # Idle
    /\ run.method = "ingest_string_interactions"
    /\ run.chunk_size = 2
    /\ run.pos = 3
    /\ hist.runs = 2
    /\ Len(checkpoints) >= 2
    /\ LET saved == checkpoints[Len(checkpoints)]
       IN /\ saved.checkpoint_name[4] = 2
          /\ saved.data.total_processed = 3
          /\ \E i \in 1..(Len(checkpoints) - 1) :
                /\ checkpoints[i].checkpoint_name = saved.checkpoint_name
                /\ checkpoints[i].data.total_processed = 3

AttributeKeys == {"evidence_type", "interaction_type", "source_specific_id", "source_scores"}

\* C29: a call of add_interaction that finds the (pair, source) row leaves
\* the larger of the stored and the given confidence in it, sets every
\* attribute the call supplies to the call's value whatever the two
\* confidences are, and changes nothing else in the row or in any other row.
C29_UpdateOverwritesAttributes ==
    [][ (last'.op = "add_interaction" /\ last'.existed) =>
          LET old == interactions[last'.ret]
              new == interactions'[last'.ret]
          IN /\ Len(interactions') = Len(interactions)
             /\ \A i \in DOMAIN interactions :
                   i # last'.ret => interactions'[i] = interactions[i]
             /\ new.confidence_score =
                   (IF last'.confidence_score > old.confidence_score
                    THEN last'.confidence_score ELSE old.confidence_score)
             /\ \A key \in AttributeKeys :
                   new[key] = IF last'.attributes[key] # None
                              THEN last'.attributes[key] ELSE old[key]
             /\ new.protein1_id = old.protein1_id
             /\ new.protein2_id = old.protein2_id
             /\ new.source_id = old.source_id
             /\ new.created_at = old.created_at
      ]_vars

\* a row submitted with confidence 900 has been updated by a call with
\* confidence 500, evidence "database" and sub-scores of its own: the row
\* holds the confidence of the earlier observation with the label and the
\* sub-scores of the later one
C29_Witness ==
    /\ last.op = "add_interaction"
    /\ last.existed
    /\ last.confidence_score = 500
    /\ last.attributes.evidence_type = Some("database")
    /\ last.attributes.source_scores = Some([experimental |-> 0, database |-> 500])
    /\ interactions[last.ret].confidence_score = 900
    /\ interactions[last.ret].evidence_type = Some("database")
    /\ interactions[last.ret].source_scores = Some([experimental |-> 0, database |-> 500])
    /\ <<{last.protein1, last.protein2}, last.source, 900>> \in hist.submitted

One == Float(1, 1)

\* C30: every confidence_score collected in edge_sources is at most 1 (the
\* modelled floats are non-negative), and so are max_confidence and
\* composite_confidence of every merged edge.
C30_ConfidencesOnUnitScale ==
    /\ \A key \in DOMAIN edge_sources :
          \A i \in 1..Len(edge_sources[key]) :
              FLeq(edge_sources[key][i].confidence_score, One)
    /\ \A key \in DOMAIN network :
          /\ FLeq(network[key].max_confidence, One)
          /\ FLeq(network[key].composite_confidence, One)

============================================================================
